---- MODULE Spec2Model ----
(***************************************************************************)
(* ApriQueue (src/apriquot): an in-memory priority queue with ageing       *)
(* priorities, maturation times, deadlines, token-bucket groups,           *)
(* dependencies and retries.                                               *)
(*                                                                         *)
(* Time is a discrete clock `now` counted in seconds.  Every call runs at  *)
(* one instant of that clock (all datetime.now() reads made by one call    *)
(* return `now`); Tick advances the clock between calls.                   *)
(*                                                                         *)
(* Items are identified by 1, 2, ... in creation order (the code draws a   *)
(* fresh uuid4 per item); groups likewise.  NoTime stands for None in a    *)
(* datetime field, NoId for None in an id field.                           *)
(***************************************************************************)
EXTENDS Integers, Sequences, FiniteSets, TLC

\* ------------------------------------------------------------------ bounds
MaxItems == 3
\* items held by a run that also retries or completes them
MaxBusyItems == 2
MaxTime == 2
MaxGroups == 2
NumThreads == 2

\* Inputs of push are drawn from these sets.
Priorities == {1, 2, 4}
Costs == {1, 2}
\* aging_factor as <<numerator, denominator>>
AgingFactors == {<<1, 2>>}
\* minimum_fractional_priority as <<numerator, denominator>> (the default, 0.1)
MinimumFractions == {<<1, 10>>}
\* offsets from the time of the push; FarOffset lies beyond the clock's range
FarOffset == 8
MaturesOffsets == {0, 2}
DeadlineOffsets == {-1, 1, FarOffset}
MaxRetriesChoices == {0, 2}
BaseRetryDelays == {1}
\* new_group(max_tokens, refill_rate)
GroupSpecs == {[max_tokens |-> 2, refill_rate |-> 1]}

\* ------------------------------------------------------- program constants
BackoffFactor == 2
DefaultMaxTokens == 10
DefaultRefillRate == 1
MaxPopRate == 1000000000
DatetimeMin == -1000000

NoTime == -1
NoId == 0

Threads == 1..NumThreads
ItemIds == 1..MaxItems

\* ItemState (item.py)
IMMATURE == "IMMATURE"
READY == "READY"
IN_PROGRESS == "IN_PROGRESS"
EXPIRED == "EXPIRED"
FAILED == "FAILED"
COMPLETED == "COMPLETED"
ItemState == <<IMMATURE, READY, IN_PROGRESS, EXPIRED, FAILED, COMPLETED>>

VARIABLES
    now,              \* the wall clock
    item_map,         \* id -> Item
    priority_heap,    \* list of item ids, kept as a heapq heap
    maturation_heap,  \* list of <<matures, id>>, kept as a heapq heap
    expiration_heap,  \* list of <<deadline, id>>, kept as a heapq heap
    groups,           \* id -> ItemGroup
    default_group,    \* ApriQueue._default_group
    completed_items,
    failed_items,
    lock,             \* ApriQueue.lock: NoId when free, else the holding thread
    pc,               \* thread -> where the thread is inside a call
    last_call,        \* the most recent call and what it gave its caller
    emitted,          \* id -> how often pop returned the item (counted to 2)
    credit,           \* id -> re-insertions by retry not yet used up by a pop of it
    blob_rows,        \* the Blob table of the index
    chunk_rows,       \* the Chunk table of the index
    link_rows,        \* the BlobChunkLink table (core.py only)
    store,            \* KeyValueStore.store: key -> stored value
    reference_count,  \* KeyValueStore.reference_count: key -> count
    doop_call,        \* the most recent blob-store or KV call and its outcome
    live,             \* identifier -> bytes of the blobs stored and not deleted
    kv_log,           \* the put and delete calls made on the KV store directly
    cache,            \* LRUCacheKeyValueStore.cache: <<key, value>> pairs, oldest first
    recency,          \* the keys put or got so far, the most recently used last
    chunk_call,       \* the content-defined chunker built, its blob and its chunks
    push_group,       \* per thread, the group its push in progress holds
    new_item_event,   \* whether the queue's asyncio.Event is set
    writers,          \* per writer, where its store_blob call stands
    hybrid            \* HybridKeyValueStore: its local_store and its remote store

\* the blob store and its key-value store
\* what neither the queue nor the blob store touches
other_vars == <<cache, recency, chunk_call, push_group, new_item_event, writers, hybrid>>

blob_vars == <<blob_rows, chunk_rows, link_rows, store, reference_count,
               doop_call, live, kv_log, other_vars>>

\* the queue
queue_vars == <<now, item_map, priority_heap, maturation_heap, expiration_heap,
                groups, default_group, completed_items, failed_items, lock, pc,
                last_call, emitted, credit>>

vars == <<now, item_map, priority_heap, maturation_heap, expiration_heap, groups,
          default_group, completed_items, failed_items, lock, pc, last_call,
          emitted, credit, blob_rows, chunk_rows, link_rows, store,
          reference_count, doop_call, live, kv_log, cache, recency, chunk_call,
          push_group, new_item_event, writers, hybrid>>

\* --------------------------------------------------------------- utilities
RECURSIVE Pow(_, _)
Pow(b, e) == IF e = 0 THEN 1 ELSE b * Pow(b, e - 1)

Min2(a, b) == IF a <= b THEN a ELSE b
Max2(a, b) == IF a >= b THEN a ELSE b

Count(s, x) == Cardinality({k \in 1..Len(s) : s[k] = x})
TimedCount(s, x) == Cardinality({k \in 1..Len(s) : s[k][2] = x})
Sat2(n) == Min2(n, 2)

\* ----------------------------------------------------- effective priority
\* Item.age
Age(it) == now - it.enqueued

\* Item.effective_priority as the exact fraction <<numerator, denominator>>:
\*   e = priority * aging_factor ** age
\*   e = e * (1 - age / (deadline - enqueued))
\*   (1 - minimum_fractional_priority) * e + minimum_fractional_priority
\* The denominator is positive for an item with deadline > enqueued.  An item
\* with deadline = enqueued has no effective priority (the division raises
\* ZeroDivisionError); the model never compares such an item with another.
EffectivePriority(it) ==
    LET age == Age(it)
        life == it.deadline - it.enqueued
        an == it.aging_factor[1]
        ad == it.aging_factor[2]
        mn == it.minimum_fractional_priority[1]
        md == it.minimum_fractional_priority[2]
        \* ages below zero do not occur: enqueued <= now
        eNum == it.priority * Pow(an, age) * (life - age)
        eDen == Pow(ad, age) * life
    IN <<(md - mn) * eNum + mn * eDen, md * eDen>>

\* Item.__lt__
ItemLt(im, a, b) ==
    LET ea == EffectivePriority(im[a])
        eb == EffectivePriority(im[b])
    IN ea[1] * eb[2] < eb[1] * ea[2]

\* Comparison of two heap entries: items in the priority heap, tuples
\* (time, item) in the maturation and expiration heaps.  Python compares
\* tuples by the first position that differs (Item has no __eq__, so two
\* entries of the same item are equal there and the tuples compare equal).
Less(im, timed, x, y) ==
    IF timed
    THEN IF x[1] # y[1] THEN x[1] < y[1]
         ELSE IF x[2] = y[2] THEN FALSE ELSE ItemLt(im, x[2], y[2])
    ELSE ItemLt(im, x, y)

\* ------------------------------------------------------------------- heapq
\* Positions are 0-based as in heapq; heap[p + 1] is the entry at position p.
RECURSIVE SiftDownLoop(_, _, _, _, _, _)
SiftDownLoop(im, timed, heap, startpos, pos, newitem) ==
    IF pos > startpos
    THEN LET parentpos == (pos - 1) \div 2
             parent == heap[parentpos + 1]
         IN IF Less(im, timed, newitem, parent)
            THEN SiftDownLoop(im, timed, [heap EXCEPT ![pos + 1] = parent],
                              startpos, parentpos, newitem)
            ELSE [heap EXCEPT ![pos + 1] = newitem]
    ELSE [heap EXCEPT ![pos + 1] = newitem]

\* heapq._siftdown
SiftDown(im, timed, heap, startpos, pos) ==
    SiftDownLoop(im, timed, heap, startpos, pos, heap[pos + 1])

RECURSIVE SiftUpLoop(_, _, _, _, _, _)
SiftUpLoop(im, timed, heap, startpos, pos, newitem) ==
    LET endpos == Len(heap)
        childpos == 2 * pos + 1
    IN IF childpos < endpos
       THEN LET rightpos == childpos + 1
                c == IF rightpos < endpos
                        /\ ~Less(im, timed, heap[childpos + 1], heap[rightpos + 1])
                     THEN rightpos ELSE childpos
            IN SiftUpLoop(im, timed, [heap EXCEPT ![pos + 1] = heap[c + 1]],
                          startpos, c, newitem)
       ELSE SiftDown(im, timed, [heap EXCEPT ![pos + 1] = newitem], startpos, pos)

\* heapq._siftup
SiftUp(im, timed, heap, pos) ==
    SiftUpLoop(im, timed, heap, pos, pos, heap[pos + 1])

\* heapq.heappush
HeapPush(im, timed, heap, x) ==
    SiftDown(im, timed, Append(heap, x), 0, Len(heap))

\* heapq.heappop on a non-empty heap: <<returned entry, remaining heap>>
HeapPop(im, timed, heap) ==
    LET lastelt == heap[Len(heap)]
        rest == SubSeq(heap, 1, Len(heap) - 1)
    IN IF rest # <<>>
       THEN <<rest[1], SiftUp(im, timed, [rest EXCEPT ![1] = lastelt], 0)>>
       ELSE <<lastelt, rest>>

RECURSIVE HeapifyLoop(_, _, _, _)
HeapifyLoop(im, timed, heap, i) ==
    IF i < 0 THEN heap
    ELSE HeapifyLoop(im, timed, SiftUp(im, timed, heap, i), i - 1)

\* heapq.heapify
Heapify(im, timed, heap) == HeapifyLoop(im, timed, heap, (Len(heap) \div 2) - 1)

\* list.remove(x): drops the first occurrence (the caller checks membership)
ListRemove(s, x) ==
    LET k == CHOOSE j \in 1..Len(s) : s[j] = x /\ \A h \in 1..(j - 1) : s[h] # x
    IN SubSeq(s, 1, k - 1) \o SubSeq(s, k + 1, Len(s))

InList(s, x) == \E k \in 1..Len(s) : s[k] = x

\* ------------------------------------------------------------------ groups
\* ItemGroup.__init__
NewItemGroup(spec) ==
    [max_tokens |-> spec.max_tokens,
     refill_rate |-> spec.refill_rate,
     last_refill_time |-> now,
     last_pop |-> DatetimeMin,
     tokens |-> spec.max_tokens,
     max_pop_rate |-> MaxPopRate]

\* update that adds the refill without the cap of max_tokens
GroupUpdateUncapped(g) ==
    [g EXCEPT !.tokens = g.tokens + (now - g.last_refill_time) * g.refill_rate,
              !.last_refill_time = now]

\* ItemGroup.update
GroupUpdate(g) ==
    LET elapsed == now - g.last_refill_time
    IN [g EXCEPT !.tokens = Min2(g.max_tokens, g.tokens + elapsed * g.refill_rate),
                 !.last_refill_time = now]

\* ItemGroup.consume_tokens: <<group afterwards, returned value>>.
\* 1 / elapsed < max_pop_rate is evaluated on whole seconds: elapsed is at
\* least one second here (last_pop is never advanced from datetime.min).
ConsumeTokens(g, quantity) ==
    LET u == GroupUpdate(g)
        elapsed == now - u.last_pop
    IN IF u.tokens >= quantity /\ elapsed > 0 /\ (1 \div elapsed) < u.max_pop_rate
       THEN <<[u EXCEPT !.tokens = u.tokens - quantity], TRUE>>
       ELSE <<u, FALSE>>

NextGroupId == Cardinality(DOMAIN groups) + 1
NextItemId == Cardinality(DOMAIN item_map) + 1

\* What a call gave its caller: result is the returned value or the name of
\* the error raised; for a pop that returns an item, was is the state the item
\* had when the selection loop ended (before it is set to IN_PROGRESS).
Call(op, id, result) ==
    [op |-> op, id |-> id, result |-> result, was |-> "-"]

\* A call is made by a thread that is not inside another call.
SomeThreadIdle == \E th \in Threads : pc[th] = "idle"

\* ApriQueue.new_group
NewGroup(spec) ==
    /\ lock = NoId
    /\ SomeThreadIdle
    /\ NextGroupId <= MaxGroups
    /\ groups' = (NextGroupId :> NewItemGroup(spec)) @@ groups
    /\ last_call' = Call("new_group", NextGroupId, "ok")
    /\ UNCHANGED <<now, item_map, priority_heap, maturation_heap, expiration_heap,
                   default_group, completed_items, failed_items, lock, pc,
                   emitted, credit>>
    /\ UNCHANGED blob_vars

\* ------------------------------------------------------------------- items
\* Item.__init__ for a valid spec (priority >= 0, jitter = 0).  spec.matures
\* and spec.deadline are NoTime when the caller passes none; the model's
\* callers always pass a deadline.
NewItem(spec, group) ==
    LET matures == IF spec.matures = NoTime THEN now ELSE spec.matures
        deadline == spec.deadline
    IN [priority |-> spec.priority,
        minimum_fractional_priority |-> spec.minimum_fractional_priority,
        cost |-> spec.cost,
        aging_factor |-> spec.aging_factor,
        enqueued |-> now,
        matures |-> matures,
        deadline |-> deadline,
        max_retries |-> spec.max_retries,
        base_retry_delay |-> spec.base_retry_delay,
        group |-> group,
        dependencies |-> spec.dependencies,
        retries |-> 0,
        last_popped |-> NoTime,
        state |-> IF matures = NoTime THEN IMMATURE ELSE READY]

\* Item.update_mature_time, with jitter = 0 (random.uniform(-0, 0) = 0)
UpdateMatureTime(it) ==
    IF it.retries > 0
    THEN LET delay == it.base_retry_delay * Pow(BackoffFactor, it.retries)
             base == IF it.last_popped # NoTime THEN it.last_popped ELSE it.enqueued
             earliest_retry == base + delay
         IN [it EXCEPT !.matures = Max2(it.matures, earliest_retry)]
    ELSE it

\* Item.retry: <<item afterwards, raised RetryLimitExceededError>>
ItemRetry(it) ==
    LET r == [it EXCEPT !.retries = it.retries + 1]
    IN IF r.retries > r.max_retries THEN <<r, TRUE>> ELSE <<UpdateMatureTime(r), FALSE>>

\* -------------------------------------------------------------------- push
\* ApriQueue.has_cyclic_dependency: depth-first visit over item_map.
\* v = [found, stack, visited]
RECURSIVE Visit(_, _, _)
RECURSIVE VisitAll(_, _, _)
Visit(im, node, v) ==
    IF node \in v.stack THEN [v EXCEPT !.found = TRUE]
    ELSE IF node \in v.visited THEN v
    ELSE LET w == VisitAll(im, im[node].dependencies,
                           [v EXCEPT !.stack = v.stack \cup {node},
                                     !.visited = v.visited \cup {node}])
         IN IF w.found THEN w ELSE [w EXCEPT !.stack = w.stack \ {node}]
VisitAll(im, deps, v) ==
    IF deps = << >> \/ v.found THEN v
    ELSE LET w == Visit(im, Head(deps), v)
         IN IF w.found THEN w ELSE VisitAll(im, Tail(deps), w)

HasCyclicDependency(im, item_id, dependencies) ==
    VisitAll(im, dependencies,
             [found |-> FALSE, stack |-> {item_id}, visited |-> {item_id}]).found

\* The specs the model's callers push: BaseSpec, and BaseSpec changed in its
\* priority, in its window, in its group and cost, in its dependencies, or
\* in its retry parameters.
BaseSpec ==
    [priority |-> 1,
     cost |-> 1,
     aging_factor |-> <<1, 2>>,
     minimum_fractional_priority |-> <<1, 10>>,
     matures |-> NoTime,
     deadline |-> now + FarOffset,
     max_retries |-> 1,
     base_retry_delay |-> 0,
     group |-> NoId,
     dependencies |-> << >>]

PrioritySpecs ==
    {[BaseSpec EXCEPT !.priority = p, !.aging_factor = a,
                      !.minimum_fractional_priority = m] :
        p \in Priorities, a \in AgingFactors, m \in MinimumFractions}

WindowSpecs ==
    {[BaseSpec EXCEPT !.matures = IF k = 0 THEN NoTime ELSE now + k,
                      !.deadline = now + d] :
        k \in MaturesOffsets, d \in DeadlineOffsets}

GroupedSpecs ==
    {[BaseSpec EXCEPT !.group = g, !.cost = c] :
        g \in DOMAIN groups \ {default_group}, c \in Costs}

DependentSpecs ==
    {[BaseSpec EXCEPT !.dependencies = <<j>>] : j \in DOMAIN item_map}

RetrySpecs ==
    {[BaseSpec EXCEPT !.max_retries = r, !.base_retry_delay = b] :
        r \in MaxRetriesChoices, b \in BaseRetryDelays}

\* ApriQueue.push.  The default group is created (new_group) before the item
\* is built, so it is there even when the push then raises.
PushBody(spec) ==
    /\ LET make_default == spec.group = NoId /\ default_group = NoId
           gid == IF spec.group # NoId THEN spec.group
                  ELSE IF make_default THEN NextGroupId ELSE default_group
           groups1 == IF make_default
                      THEN (gid :> NewItemGroup([max_tokens |-> DefaultMaxTokens,
                                                  refill_rate |-> DefaultRefillRate]))
                           @@ groups
                      ELSE groups
           id == NextItemId
           new_item == NewItem(spec, gid)
           im1 == (id :> new_item) @@ item_map
       IN /\ groups' = groups1
          /\ default_group' = IF make_default THEN gid ELSE default_group
          /\ IF new_item.deadline < now
             THEN /\ last_call' = Call("push", NoId, "ItemExpiredError")
                  /\ UNCHANGED <<item_map, priority_heap, maturation_heap,
                                 expiration_heap, emitted, credit>>
             ELSE IF new_item.deadline < new_item.matures
             THEN /\ last_call' = Call("push", NoId, "ValueError")
                  /\ UNCHANGED <<item_map, priority_heap, maturation_heap,
                                 expiration_heap, emitted, credit>>
             ELSE IF HasCyclicDependency(item_map, id, new_item.dependencies)
             THEN /\ last_call' = Call("push", NoId, "ValueError")
                  /\ UNCHANGED <<item_map, priority_heap, maturation_heap,
                                 expiration_heap, emitted, credit>>
             ELSE /\ expiration_heap' =
                        HeapPush(im1, TRUE, expiration_heap, <<new_item.deadline, id>>)
                  /\ IF new_item.matures > now
                     THEN /\ maturation_heap' =
                                HeapPush(im1, TRUE, maturation_heap, <<new_item.matures, id>>)
                          /\ UNCHANGED priority_heap
                     ELSE /\ priority_heap' = HeapPush(im1, FALSE, priority_heap, id)
                          /\ UNCHANGED maturation_heap
                  /\ item_map' = im1
                  /\ emitted' = (id :> 0) @@ emitted
                  /\ credit' = (id :> 0) @@ credit
                  /\ last_call' = Call("push", id, "ok")

\* ApriQueue.push, called by one thread at a time
Push(spec) ==
    /\ lock = NoId
    /\ SomeThreadIdle
    /\ NextItemId <= MaxItems
    /\ spec.group = NoId /\ default_group = NoId => NextGroupId <= MaxGroups
    /\ PushBody(spec)
    /\ UNCHANGED <<now, completed_items, failed_items, lock, pc>>
    /\ UNCHANGED blob_vars

\* --------------------------------------------------------------------- pop
\* The pop cycle works on q = [im, ph, mh, eh, gr, err]: the item map, the
\* three heaps, the groups, and whether an error escaped (then the rest of
\* the cycle is skipped).

\* One round of the loop of _move_matured_items_to_priority_heap as it would
\* be if a matured item were taken off the maturation heap without being put
\* on the priority heap.
RECURSIVE MoveMaturedItemsToPriorityHeap(_)
MoveMaturedItemDropping(q, rest, maturation_time, id) ==
    IF maturation_time > now
    THEN [q EXCEPT !.im[id].state = IMMATURE,
                   !.mh = HeapPush(q.im, TRUE, rest, <<maturation_time, id>>)]
    ELSE MoveMaturedItemsToPriorityHeap(
             [q EXCEPT !.im[id].state = READY, !.mh = rest])

\* One round of the loop of _move_matured_items_to_priority_heap, for the
\* entry (maturation_time, item) that heappop returned, rest being the heap
\* it left.
MoveMaturedItem(q, rest, maturation_time, id) ==
    IF maturation_time > now
    THEN [q EXCEPT !.im[id].state = IMMATURE,
                   !.mh = HeapPush(q.im, TRUE, rest, <<maturation_time, id>>)]
    ELSE MoveMaturedItemsToPriorityHeap(
             [q EXCEPT !.im[id].state = READY,
                       !.mh = rest,
                       !.ph = HeapPush(q.im, FALSE, q.ph, id)])

\* heappop's result r = <<entry, rest>> taken apart
MoveMaturedPopped(q, r) == MoveMaturedItem(q, r[2], r[1][1], r[1][2])

\* ApriQueue._move_matured_items_to_priority_heap
MoveMaturedItemsToPriorityHeap(q) ==
    IF q.mh = << >> THEN q
    ELSE MoveMaturedPopped(q, HeapPop(q.im, TRUE, q.mh))

\* One round of the loop of _remove_expired_items, for the entry
\* (expiration_time, item) that heappop returned; list.remove raises
\* ValueError when the item is not in the priority heap.
RECURSIVE RemoveExpiredItems(_)
RemoveExpiredItem(q, rest, expiration_time, id) ==
    IF expiration_time > now
    THEN [q EXCEPT !.im[id].state = READY,
                   !.eh = HeapPush(q.im, TRUE, rest, <<expiration_time, id>>)]
    ELSE IF InList(q.ph, id)
    THEN RemoveExpiredItems([q EXCEPT !.im[id].state = EXPIRED,
                                      !.eh = rest,
                                      !.ph = ListRemove(q.ph, id)])
    ELSE [q EXCEPT !.im[id].state = EXPIRED, !.eh = rest, !.err = TRUE]

\* heappop's result r = <<entry, rest>> taken apart
RemoveExpiredPopped(q, r) == RemoveExpiredItem(q, r[2], r[1][1], r[1][2])

\* ApriQueue._remove_expired_items
RemoveExpiredItems(q) ==
    IF q.eh = << >> THEN q
    ELSE RemoveExpiredPopped(q, HeapPop(q.im, TRUE, q.eh))

\* ApriQueue._update_priorities
UpdatePriorities(q) == [q EXCEPT !.ph = Heapify(q.im, FALSE, q.ph)]

\* any(dep not in self.completed_items for dep in item.dependencies)
HasUnmetDependency(it) ==
    \E k \in 1..Len(it.dependencies) : it.dependencies[k] \notin completed_items

\* The while loop of ApriQueue._pop_next_eligible_item.  item is the loop's
\* variable of that name (NoId for None); the result is
\* [q, item, to_requeue] as the loop leaves them.
RECURSIVE SelectLoop(_, _, _)

\* The group check of the loop's body: c = <<group afterwards, consumed>> is
\* what consume_tokens gave.
SelectConsumed(q, id, gid, c, to_requeue) ==
    IF ~c[2]
    THEN SelectLoop([q EXCEPT !.gr[gid] = c[1]], NoId, Append(to_requeue, id))
    ELSE [q |-> [q EXCEPT !.gr[gid] = c[1]], item |-> id, to_requeue |-> to_requeue]

\* The dependency and group checks of the loop's body, for an item that has
\* passed the state checks.
SelectChecked(q, id, it, to_requeue) ==
    IF HasUnmetDependency(it)
    THEN SelectLoop(q, id, Append(to_requeue, id))
    ELSE IF it.group \in DOMAIN q.gr
    THEN SelectConsumed(q, id, it.group, ConsumeTokens(q.gr[it.group], it.cost),
                        to_requeue)
    ELSE [q |-> q, item |-> id, to_requeue |-> to_requeue]

\* The loop's body for the item heappop returned; q no longer holds it.
SelectItem(q, id, it, to_requeue) ==
    IF it.state = EXPIRED
    THEN SelectLoop(q, id, to_requeue)
    ELSE IF it.state = IMMATURE /\ it.matures > now
    THEN SelectLoop([q EXCEPT !.mh = HeapPush(q.im, TRUE, q.mh, <<it.matures, id>>)],
                    id, to_requeue)
    ELSE IF it.state = IMMATURE
    THEN SelectChecked([q EXCEPT !.im[id].state = READY], id, it, to_requeue)
    ELSE SelectChecked(q, id, it, to_requeue)

\* heappop's result r = <<item, rest>> taken apart
SelectPopped(q, r, to_requeue) ==
    SelectItem([q EXCEPT !.ph = r[2]], r[1], q.im[r[1]], to_requeue)

SelectLoop(q, item, to_requeue) ==
    IF q.ph = << >> THEN [q |-> q, item |-> item, to_requeue |-> to_requeue]
    ELSE SelectPopped(q, HeapPop(q.im, FALSE, q.ph), to_requeue)

\* for e in to_requeue: heapq.heappush(self.priority_heap, e)
RECURSIVE Requeue(_, _, _)
RequeueAllButLast(im, ph, to_requeue) ==
    IF Len(to_requeue) <= 1 THEN ph
    ELSE Requeue(im, HeapPush(im, FALSE, ph, Head(to_requeue)), Tail(to_requeue))

Requeue(im, ph, to_requeue) ==
    IF to_requeue = << >> THEN ph
    ELSE Requeue(im, HeapPush(im, FALSE, ph, Head(to_requeue)), Tail(to_requeue))

\* The end of _pop_next_eligible_item, q being the queue after the re-queueing
\* and item the loop's variable: [q, item, was]; item = NoId stands for the
\* QueueEmptyError raised there.
SelectEnd(q, item) ==
    IF item = NoId
    THEN [q |-> q, item |-> NoId, was |-> "-"]
    ELSE [q |-> [q EXCEPT !.im[item].state = IN_PROGRESS,
                          !.im[item].last_popped = now],
          item |-> item,
          was |-> q.im[item].state]

\* s = [q, item, to_requeue] as the while loop left them
SelectRequeued(s) ==
    SelectEnd([s.q EXCEPT !.ph = Requeue(s.q.im, s.q.ph, s.to_requeue)], s.item)

\* ApriQueue._pop_next_eligible_item
PopNextEligibleItem(q) == SelectRequeued(SelectLoop(q, NoId, << >>))

\* pop after its two sweeps, q being the queue they left
PopSwept(q) ==
    IF q.err
    THEN [q |-> q, item |-> NoId, was |-> "-"]
    ELSE PopNextEligibleItem(UpdatePriorities(q))

\* What pop gives its caller, p = [q, item, was] being the outcome of its body
PopCall(p) ==
    IF p.item # NoId
    THEN [Call("pop", p.item, "item") EXCEPT !.was = p.was]
    ELSE Call("pop", NoId, IF p.q.err THEN "ValueError" ELSE "QueueEmptyError")

\* The bookkeeping of emissions for the item pop returns: the first emission
\* of an item answers its push, each further one uses up a re-insertion.
PopEmitted(p) == [emitted EXCEPT ![p.item] = Sat2(@ + 1)]
PopCredit(p) ==
    IF emitted[p.item] >= 1 THEN [credit EXCEPT ![p.item] = Max2(@ - 1, 0)] ELSE credit

\* What pop leaves behind
PopOutcome(p) ==
    /\ item_map' = p.q.im
    /\ priority_heap' = p.q.ph
    /\ maturation_heap' = p.q.mh
    /\ expiration_heap' = p.q.eh
    /\ groups' = p.q.gr
    /\ last_call' = PopCall(p)
    /\ IF p.item # NoId
       THEN /\ emitted' = PopEmitted(p)
            /\ credit' = PopCredit(p)
       ELSE UNCHANGED <<emitted, credit>>

\* The queue as the pop cycle sees it when it starts
Queue ==
    [im |-> item_map, ph |-> priority_heap, mh |-> maturation_heap,
     eh |-> expiration_heap, gr |-> groups, err |-> FALSE]

\* The body of pop run on the present state: [q, item, was]
PopBody ==
    IF priority_heap = << >> /\ maturation_heap = << >>
    THEN [q |-> Queue, item |-> NoId, was |-> "-"]
    ELSE PopSwept(RemoveExpiredItems(MoveMaturedItemsToPriorityHeap(Queue)))

\* ApriQueue.pop, all of it under the lock
Pop ==
    /\ lock = NoId
    /\ SomeThreadIdle
    /\ PopOutcome(PopBody)
    /\ UNCHANGED <<now, default_group, completed_items, failed_items, lock, pc>>
    /\ UNCHANGED blob_vars

\* ------------------------------------------------------------------- retry
\* The check of retry_item as it would be if it let one retry too many through.
NoRetriesLeftOffByOne(it) == it.retries > it.max_retries

\* if item.retries >= item.max_retries: return False
NoRetriesLeft(it) == it.retries >= it.max_retries

\* The body of ApriQueue.retry_item inside its "with self.lock":
\* [ok, im, mh, ph, raised].  item.matures is never None, so the item always
\* goes to the maturation heap.
RetryItemBody(im, mh, ph, id) ==
    IF NoRetriesLeft(im[id])
    THEN [ok |-> FALSE, im |-> im, mh |-> mh, ph |-> ph, raised |-> FALSE]
    ELSE LET r == ItemRetry(im[id])
             im1 == [im EXCEPT ![id] = r[1]]
         IN IF r[2]
            THEN [ok |-> FALSE, im |-> im1, mh |-> mh, ph |-> ph, raised |-> TRUE]
            ELSE IF r[1].matures # NoTime
            THEN [ok |-> TRUE, im |-> im1,
                  mh |-> HeapPush(im1, TRUE, mh, <<r[1].matures, id>>),
                  ph |-> ph, raised |-> FALSE]
            ELSE [ok |-> TRUE, im |-> im1, mh |-> mh,
                  ph |-> HeapPush(im1, FALSE, ph, id), raised |-> FALSE]

\* ApriQueue.retry_item
RetryItem(id) ==
    /\ lock = NoId
    /\ SomeThreadIdle
    /\ id \in DOMAIN item_map
    /\ LET r == RetryItemBody(item_map, maturation_heap, priority_heap, id)
       IN /\ item_map' = r.im
          /\ maturation_heap' = r.mh
          /\ priority_heap' = r.ph
          /\ credit' = IF r.ok THEN [credit EXCEPT ![id] = @ + 1] ELSE credit
          /\ last_call' = Call("retry_item", id,
                               IF r.raised THEN "RetryLimitExceededError"
                               ELSE IF r.ok THEN "True" ELSE "False")
    /\ UNCHANGED <<now, expiration_heap, groups, default_group, completed_items,
                   failed_items, lock, pc, emitted>>
    /\ UNCHANGED blob_vars

\* ---------------------------------------------------------- mark_complete
\* ApriQueue.mark_complete for a known item
MarkComplete(id) ==
    /\ lock = NoId
    /\ SomeThreadIdle
    /\ id \in DOMAIN item_map
    /\ item_map' = [item_map EXCEPT ![id].state = COMPLETED]
    /\ completed_items' = completed_items \cup {id}
    /\ last_call' = Call("mark_complete", id, "ok")
    /\ UNCHANGED <<now, priority_heap, maturation_heap, expiration_heap, groups,
                   default_group, failed_items, lock, pc, emitted, credit>>
    /\ UNCHANGED blob_vars

\* ------------------------------------------------------------ mark_failed
\* threading.Lock.acquire by thread th when the lock is held by `holder`:
\* the lock is not reentrant, so it can be taken only when nobody holds it.
CanAcquire(holder, th) == holder = NoId

\* ApriQueue.mark_failed for a known item.  It takes the lock and, holding
\* it, calls retry_item, which takes the lock again.  When that second
\* acquire cannot proceed the thread stays inside the call, holding the lock.
MarkFailed(th, id) ==
    /\ CanAcquire(lock, th)
    /\ pc[th] = "idle"
    /\ id \in DOMAIN item_map
    /\ LET held == th
       IN IF CanAcquire(held, th)
          THEN LET r == RetryItemBody(item_map, maturation_heap, priority_heap, id)
               IN /\ maturation_heap' = r.mh
                  /\ priority_heap' = r.ph
                  /\ credit' = IF r.ok THEN [credit EXCEPT ![id] = @ + 1] ELSE credit
                  /\ IF r.ok
                     THEN /\ item_map' = r.im
                          /\ UNCHANGED failed_items
                     ELSE /\ item_map' = [r.im EXCEPT ![id].state = FAILED]
                          /\ failed_items' = failed_items \cup {id}
                  /\ last_call' = Call("mark_failed", id, "ok")
                  /\ UNCHANGED <<lock, pc>>
          ELSE /\ lock' = held
               /\ pc' = [pc EXCEPT ![th] = "mark_failed:retry_item:acquire"]
               /\ last_call' = Call("mark_failed", id, "blocked")
               /\ UNCHANGED <<item_map, maturation_heap, priority_heap, failed_items,
                              credit>>
    /\ UNCHANGED <<now, expiration_heap, groups, default_group, completed_items,
                   emitted>>
    /\ UNCHANGED blob_vars

\* ------------------------------------------------------------------ Init
Init ==
    /\ now = 0
    /\ item_map = << >>
    /\ priority_heap = << >>
    /\ maturation_heap = << >>
    /\ expiration_heap = << >>
    /\ groups = << >>
    /\ default_group = NoId
    /\ completed_items = {}
    /\ failed_items = {}
    /\ lock = NoId
    /\ pc = [th \in Threads |-> "idle"]
    /\ last_call = Call("init", NoId, "ok")
    /\ emitted = << >>
    /\ credit = << >>
    /\ blob_rows = {}
    /\ chunk_rows = {}
    /\ link_rows = {}
    /\ store = << >>
    /\ reference_count = << >>
    /\ doop_call = [op |-> "init", identifier |-> "-", key |-> << >>, result |-> "ok",
                    value |-> << >>]
    /\ live = << >>
    /\ kv_log = << >>
    /\ cache = << >>
    /\ recency = << >>
    /\ chunk_call = [phase |-> "init", p |-> << >>, blob |-> << >>, chunks |-> << >>]
    /\ push_group = [th \in Threads |-> NoId]
    /\ new_item_event = FALSE
    /\ writers = [w \in {1, 2} |-> [pc |-> "idle", identifier |-> "-",
                                    blob_data |-> << >>, existing |-> {},
                                    result |-> "-"]]
    /\ hybrid = [local_store |-> "-",
                 remote |-> [store |-> << >>, reference_count |-> << >>]]

\* The clock advances.  Only calls read the clock; once a thread is stuck
\* holding the lock no call runs any more, and the model stops the clock.
Tick ==
    /\ now < MaxTime
    /\ lock = NoId
    /\ now' = now + 1
    /\ last_call' = Call("tick", NoId, "ok")
    /\ UNCHANGED <<item_map, priority_heap, maturation_heap, expiration_heap, groups,
                   default_group, completed_items, failed_items, lock, pc,
                   emitted, credit>>
    /\ UNCHANGED blob_vars

\* A push into a queue that holds fewer than MaxBusyItems items.
PushFew(spec) == NextItemId <= MaxBusyItems /\ Push(spec)

\* Items with maturation times, deadlines and retry delays; their consumers
\* pop them and retry them.
Next ==
    \/ Tick
    \/ \E spec \in WindowSpecs \cup RetrySpecs : PushFew(spec)
    \/ Pop
    \/ \E id \in ItemIds : RetryItem(id)

Spec == Init /\ [][Next]_vars

\* Plain items, pushed and popped.
NextOrder ==
    \/ Tick
    \/ \E spec \in PrioritySpecs : Push(spec)
    \/ Pop

SpecOrder == Init /\ [][NextOrder]_vars

\* Items with dependencies; their consumers pop them and complete them.
NextDeps ==
    \/ Tick
    \/ \E spec \in PrioritySpecs \cup DependentSpecs : PushFew(spec)
    \/ Pop
    \/ \E id \in ItemIds : MarkComplete(id)

SpecDeps == Init /\ [][NextDeps]_vars

\* Items whose consumers pop them and report them as failed.
NextFail ==
    \/ Tick
    \/ \E spec \in {BaseSpec} \cup RetrySpecs : Push(spec)
    \/ Pop
    \/ \E th \in Threads, id \in ItemIds : MarkFailed(th, id)

SpecFail == Init /\ [][NextFail]_vars

\* Items without expiration, group limits or dependencies, which mature
\* within the clock's range; pop keeps being called as time advances.
LiveMaturesOffsets == {0, 1}
LiveSpecs ==
    {[BaseSpec EXCEPT !.priority = p,
                      !.matures = IF k = 0 THEN NoTime ELSE now + k] :
        p \in Priorities, k \in {o \in LiveMaturesOffsets : now + o <= MaxTime}}

NextLive ==
    \/ Tick
    \/ \E spec \in LiveSpecs : Push(spec)
    \/ Pop

\* A pop made now would change the state: ENABLED <<Pop>>_vars, computed from
\* the outcome p of pop's body.
PopChanges(p) ==
    \/ p.q.im # item_map
    \/ p.q.ph # priority_heap
    \/ p.q.mh # maturation_heap
    \/ p.q.eh # expiration_heap
    \/ p.q.gr # groups
    \/ PopCall(p) # last_call
    \/ /\ p.item # NoId
       /\ (PopEmitted(p) # emitted \/ PopCredit(p) # credit)

PopEnabled == lock = NoId /\ SomeThreadIdle /\ PopChanges(PopBody)

\* Weak fairness of Pop, WF_vars(Pop), with ENABLED <<Pop>>_vars written
\* out as PopEnabled: the consumer keeps calling pop.
PopKeepsBeingCalled == []<>(~PopEnabled) \/ []<><<Pop>>_vars

SpecLive == Init /\ [][NextLive]_vars /\ PopKeepsBeingCalled /\ WF_vars(Tick)

\* Items pushed with deadlines around the time of the push, into a queue whose
\* heaps are empty (so no two items are ever compared).
ExpiryOffsets == {-1, 0, 1}
ExpirySpecs ==
    {[BaseSpec EXCEPT !.priority = p, !.deadline = now + d] :
        p \in Priorities, d \in ExpiryOffsets}

PushAlone(spec) ==
    /\ priority_heap = << >>
    /\ maturation_heap = << >>
    /\ expiration_heap = << >>
    /\ Push(spec)

NextExpiry ==
    \/ Tick
    \/ \E spec \in ExpirySpecs : PushAlone(spec)
    \/ Pop

SpecExpiry == Init /\ [][NextExpiry]_vars

\* Items of rate-limited groups: their callers make groups, push items of
\* cost 1 and 2 into them and pop them.
NextGroups ==
    \/ Tick
    \/ \E spec \in GroupSpecs : NewGroup(spec)
    \/ \E spec \in GroupedSpecs : PushFew(spec)
    \/ Pop

SpecGroups == Init /\ [][NextGroups]_vars

\* --------------------------------------------------------------- load
MaxSnapshot == 2      \* the most items a snapshot file lists

\* A timestamp read back from a JSON file is a str, never a datetime:
\* JsonText(t) is the text of time t, and IsText tells it from a time.
TextBase == 100
JsonText(t) == TextBase + t
IsText(v) == v >= TextBase
TimeOf(v) == IF IsText(v) THEN v - TextBase ELSE v

\* What one entry of a snapshot can say of its item: {"spec": {...}} with or
\* without a maturation time and a deadline.
SnapshotEntries ==
    [matures : {NoTime, JsonText(MaxTime)},
     deadline : {NoTime, JsonText(0), JsonText(MaxTime)}]
Snapshots ==
    UNION {[1..n -> SnapshotEntries] : n \in 0..MaxSnapshot}

\* Item(**item) in load: the item the entry's spec builds, enqueued now,
\* with a new id and no group; a deadline left out is 52 weeks away.
LoadedItem(entry) ==
    NewItem([BaseSpec EXCEPT !.matures = entry.matures,
                             !.deadline = IF entry.deadline = NoTime
                                          THEN now + FarOffset
                                          ELSE entry.deadline],
            NoId)

\* ApriQueue.load, the for loop from the k-th item on.  Comparing a str with
\* datetime.now() raises TypeError, and the loop ends there.
RECURSIVE LoadLoop(_, _, _)
LoadLoop(q, items, k) ==
    IF k > Len(items) THEN q
    ELSE LET id == Cardinality(DOMAIN q.im) + 1
             item == LoadedItem(items[k])
             q1 == [q EXCEPT !.im = (id :> item) @@ q.im]
             q2 == [q1 EXCEPT !.eh = HeapPush(q1.im, TRUE, q1.eh, <<item.deadline, id>>)]
         IN IF IsText(item.deadline)
            THEN [q1 EXCEPT !.err = TRUE]
            ELSE IF IsText(item.matures)
            THEN [q2 EXCEPT !.err = TRUE]
            ELSE IF item.matures > now
            THEN LoadLoop([q2 EXCEPT !.mh = HeapPush(q2.im, TRUE, q2.mh,
                                                     <<item.matures, id>>)],
                          items, k + 1)
            ELSE LoadLoop([q2 EXCEPT !.ph = HeapPush(q2.im, FALSE, q2.ph, id)],
                          items, k + 1)

LoadCall(snapshot, result) ==
    [op |-> "load", id |-> NoId, result |-> result, was |-> "-",
     snapshot |-> snapshot]

LoadOutcome(snapshot, q) ==
    /\ item_map' = q.im
    /\ priority_heap' = q.ph
    /\ maturation_heap' = q.mh
    /\ expiration_heap' = q.eh
    /\ emitted' = [i \in DOMAIN q.im |-> 0] @@ emitted
    /\ credit' = [i \in DOMAIN q.im |-> 0] @@ credit
    /\ last_call' = LoadCall(snapshot, IF q.err THEN "TypeError" ELSE "ok")

\* ApriQueue.load
Load(snapshot) ==
    /\ lock = NoId
    /\ SomeThreadIdle
    /\ LoadOutcome(snapshot,
           LoadLoop([Queue EXCEPT !.im = << >>, !.ph = << >>, !.mh = << >>,
                                  !.eh = << >>],
                    snapshot, 1))
    /\ UNCHANGED <<now, groups, default_group, completed_items, failed_items,
                   lock, pc>>
    /\ UNCHANGED blob_vars

NextLoad ==
    \/ Tick
    \/ PushFew(BaseSpec)
    \/ \E snapshot \in Snapshots : Load(snapshot)
    \/ Pop

SpecLoad == Init /\ [][NextLoad]_vars

\* ------------------------------------------------- concurrent pushes
\* push reads the default_group property before it takes the lock, so the
\* steps of two threads' pushes interleave.  A thread goes through
\*   push:default_group   kwargs.get("group") is None: read the property
\*   push:new_group       _default_group was None: self.new_group()
\*   push:assign          self._default_group = <the new group>
\*   push:return          return self._default_group
\*   push:item            the rest of push, with kwargs["group"] set
PushesInFlight == Cardinality({th \in Threads : pc[th] # "idle"})

RaceUnchanged ==
    /\ UNCHANGED <<blob_rows, chunk_rows, link_rows, store, reference_count,
                   doop_call, live, kv_log>>
    /\ UNCHANGED <<cache, recency, chunk_call, new_item_event, writers, hybrid>>
    /\ UNCHANGED <<now, completed_items, failed_items, lock>>

\* push is called without a group
PushCalled(th) ==
    /\ pc[th] = "idle"
    /\ lock = NoId
    /\ NextItemId + PushesInFlight <= MaxItems
    /\ pc' = [pc EXCEPT ![th] = "push:default_group"]
    /\ last_call' = Call("push", NoId, "called")
    /\ UNCHANGED <<item_map, priority_heap, maturation_heap, expiration_heap,
                   groups, default_group, emitted, credit, push_group>>
    /\ RaceUnchanged

\* default_group: if self._default_group is None
DefaultGroupRead(th) ==
    /\ pc[th] = "push:default_group"
    /\ pc' = [pc EXCEPT ![th] = IF default_group = NoId THEN "push:new_group"
                                 ELSE "push:return"]
    /\ last_call' = Call("push", NoId, "default_group")
    /\ UNCHANGED <<item_map, priority_heap, maturation_heap, expiration_heap,
                   groups, default_group, emitted, credit, push_group>>
    /\ RaceUnchanged

\* default_group: self.new_group(), the whole of it under the lock
DefaultGroupNew(th) ==
    /\ pc[th] = "push:new_group"
    /\ lock = NoId
    /\ groups' = (NextGroupId :> NewItemGroup([max_tokens |-> DefaultMaxTokens,
                                               refill_rate |-> DefaultRefillRate]))
                 @@ groups
    /\ push_group' = [push_group EXCEPT ![th] = NextGroupId]
    /\ pc' = [pc EXCEPT ![th] = "push:assign"]
    /\ last_call' = Call("push", NoId, "new_group")
    /\ UNCHANGED <<item_map, priority_heap, maturation_heap, expiration_heap,
                   default_group, emitted, credit>>
    /\ RaceUnchanged

\* default_group: self._default_group = ...
DefaultGroupAssign(th) ==
    /\ pc[th] = "push:assign"
    /\ default_group' = push_group[th]
    /\ pc' = [pc EXCEPT ![th] = "push:return"]
    /\ last_call' = Call("push", NoId, "assign")
    /\ UNCHANGED <<item_map, priority_heap, maturation_heap, expiration_heap,
                   groups, emitted, credit, push_group>>
    /\ RaceUnchanged

\* default_group: return self._default_group
DefaultGroupReturn(th) ==
    /\ pc[th] = "push:return"
    /\ push_group' = [push_group EXCEPT ![th] = default_group]
    /\ pc' = [pc EXCEPT ![th] = "push:item"]
    /\ last_call' = Call("push", NoId, "return")
    /\ UNCHANGED <<item_map, priority_heap, maturation_heap, expiration_heap,
                   groups, default_group, emitted, credit>>
    /\ RaceUnchanged

\* push from Item(kwargs) on, kwargs["group"] being the group returned
PushItem(th) ==
    /\ pc[th] = "push:item"
    /\ lock = NoId
    /\ PushBody([BaseSpec EXCEPT !.group = push_group[th]])
    /\ pc' = [pc EXCEPT ![th] = "idle"]
    /\ push_group' = [push_group EXCEPT ![th] = NoId]
    /\ RaceUnchanged

NextRace ==
    \/ \E th \in Threads : PushCalled(th)
    \/ \E th \in Threads : DefaultGroupRead(th)
    \/ \E th \in Threads : DefaultGroupNew(th)
    \/ \E th \in Threads : DefaultGroupAssign(th)
    \/ \E th \in Threads : DefaultGroupReturn(th)
    \/ \E th \in Threads : PushItem(th)

SpecRace == Init /\ [][NextRace]_vars

\* ------------------------------------------------ retries and windows
\* push(deadline=now + d, base_retry_delay=b, max_retries=1)
BackoffSpecs ==
    {[BaseSpec EXCEPT !.deadline = now + d, !.base_retry_delay = b] :
        d \in {1, FarOffset}, b \in {0, 1}}

NextBackoff ==
    \/ Tick
    \/ \E spec \in BackoffSpecs : PushFew(spec)
    \/ Pop
    \/ \E id \in ItemIds : RetryItem(id)

SpecBackoff == Init /\ [][NextBackoff]_vars

\* ====================================================================
\* doop: the content-addressed blob store and its key-value store
\* ====================================================================
ChunkSize == 2        \* FixedSizeChunker(chunk_size)
MaxRefCount == 4      \* no call is made that would push a count above this
MaxKvOps == 4         \* direct put/delete calls on a KV store used alone
MaxForeignKvOps == 2  \* direct put/delete calls next to a blob store

Identifiers == {"a", "b", "c"}
\* The blobs stored: the empty one, one chunk, the same chunk twice, and a
\* blob sharing its first chunk with the others and ending in a short chunk.
BlobData == {<< >>, <<0, 1>>, <<0, 1, 0, 1>>, <<0, 1, 1>>}
\* What dict.get gives for a missing key.
None == <<-1>>
NoKey == << >>

\* hashlib.sha256(data).hexdigest(): a digest that names its input and is no
\* byte string itself; distinct inputs have distinct digests.
Sha256(data) == <<"sha256", data>>

\* DummyCompressor, the compressor a store gets by default: pass-through.
Compress(data) == data
Decompress(data) == data

\* FixedSizeChunker.hash_chunk
HashChunk(chunk) == Sha256(chunk)

\* FixedSizeChunker.chunk_blob: blob[i : i + chunk_size] for i in
\* range(0, len(blob), chunk_size), each paired with its key.
ChunkBlob(blob) ==
    [n \in 1..((Len(blob) + ChunkSize - 1) \div ChunkSize) |->
        LET chunk == SubSeq(blob, (n - 1) * ChunkSize + 1,
                            Min2(n * ChunkSize, Len(blob)))
        IN <<HashChunk(chunk), chunk>>]

\* ------------------------------------------------------- key-value store
KvState == [store |-> store, reference_count |-> reference_count]

\* _put that stores the value of every put
KvPutOverwriting(kv, key, value) ==
    IF key \notin DOMAIN kv.store
    THEN [store |-> (key :> value) @@ kv.store,
          reference_count |-> (key :> 1) @@ kv.reference_count]
    ELSE [store |-> [kv.store EXCEPT ![key] = value],
          reference_count |-> [kv.reference_count EXCEPT ![key] = @ + 1]]

\* InMemoryKeyValueStore._put / DictKeyValueStore._put
KvPutInner(kv, key, value) ==
    IF key \notin DOMAIN kv.store
    THEN [store |-> (key :> value) @@ kv.store,
          reference_count |-> (key :> 1) @@ kv.reference_count]
    ELSE [kv EXCEPT !.reference_count[key] = @ + 1]

\* KeyValueStore.put
KvPut(kv, key, value) == KvPutInner(kv, key, Compress(value))

\* KeyValueStore.get over _get
KvGet(kv, key) ==
    IF key \in DOMAIN kv.store THEN Decompress(kv.store[key]) ELSE None

\* KeyValueStore.delete over _delete
KvDelete(kv, key) ==
    IF key \in DOMAIN kv.store
    THEN IF kv.reference_count[key] - 1 = 0
         THEN [store |-> [k \in DOMAIN kv.store \ {key} |-> kv.store[k]],
               reference_count |->
                   [k \in DOMAIN kv.reference_count \ {key} |-> kv.reference_count[k]]]
         ELSE [kv EXCEPT !.reference_count[key] = @ - 1]
    ELSE kv

RECURSIVE PutBatch(_, _)
PutBatch(kv, items) ==
    IF items = << >> THEN kv
    ELSE PutBatch(KvPut(kv, Head(items)[1], Head(items)[2]), Tail(items))

GetBatch(kv, keys) == [n \in 1..Len(keys) |-> KvGet(kv, keys[n])]

RECURSIVE DeleteBatch(_, _)
DeleteBatch(kv, keys) ==
    IF keys = << >> THEN kv
    ELSE DeleteBatch(KvDelete(kv, Head(keys)), Tail(keys))

\* ------------------------------------------------------------ the index
\* The id SQLite gives a new row of a table with an INTEGER PRIMARY KEY: one
\* more than the largest id in use.
NextRowId(rows) ==
    IF rows = {} THEN 1
    ELSE (CHOOSE r \in rows : \A o \in rows : o.id <= r.id).id + 1

\* _blob_exists that overlooks the row of an empty blob
BlobExistsWithChunks(identifier) ==
    \E b \in blob_rows : b.identifier = identifier /\ b.chunks # << >>

\* BlobStore._blob_exists
BlobExists(identifier) == \E b \in blob_rows : b.identifier = identifier

\* select(Blob).where(Blob.identifier == identifier).first(); identifier is unique
BlobRow(identifier) == CHOOSE b \in blob_rows : b.identifier = identifier

SeqRange(s) == {s[n] : n \in 1..Len(s)}

\* BlobStore._get_existing_chunks
GetExistingChunks(rows, chunk_keys) ==
    {c.hash : c \in {r \in rows : r.hash \in SeqRange(chunk_keys)}}

\* BlobStore._get_chunk_id_map
GetChunkIdMap(rows, chunk_keys) ==
    [key \in GetExistingChunks(rows, chunk_keys) |->
        (CHOOSE c \in rows : c.hash = key).id]

\* BlobStore._get_chunk_key_map
GetChunkKeyMap(rows, chunk_ids) ==
    [id \in {c.id : c \in {r \in rows : r.id \in SeqRange(chunk_ids)}} |->
        (CHOOSE c \in rows : c.id = id).hash]

\* The ids of the rows added for [Chunk(hash=key) for key in set(chunk_keys) -
\* existing_chunks]: a set is walked in no particular order, so the new
\* keys take the next ids in any order.
NewChunkIds(rows, new_keys) ==
    LET first == NextRowId(rows)
        ids == first..(first + Cardinality(new_keys) - 1)
    IN {[key \in new_keys |-> f[key]] :
           f \in {g \in [new_keys -> ids] :
                     \A k1, k2 \in new_keys : g[k1] = g[k2] => k1 = k2}}

\* select(Chunk.hash).where(Chunk.id.in_(chunk_ids)).all(): one hash per
\* Chunk row whose id is in the list, read in id order.
RECURSIVE HashesById(_)
HashesById(rows) ==
    IF rows = {} THEN << >>
    ELSE LET r == CHOOSE x \in rows : \A o \in rows : x.id <= o.id
         IN <<r.hash>> \o HashesById(rows \ {r})

SelectChunkHashes(rows, chunk_ids) ==
    HashesById({r \in rows : r.id \in SeqRange(chunk_ids)})

\* b"".join(parts)
RECURSIVE Join(_)
Join(parts) == IF parts = << >> THEN << >> ELSE Head(parts) \o Join(Tail(parts))

DoopCall(op, identifier, key, result, value) ==
    [op |-> op, identifier |-> identifier, key |-> key, result |-> result,
     value |-> value]

\* What can go wrong inside store_blob: the KV store raises at the at-th
\* put of put_batch, or one of the two commits raises.
NoFault == [step |-> "none", at |-> 0]
Faults(blob_data) ==
    {[step |-> "put_batch", at |-> n] : n \in 1..Len(ChunkBlob(blob_data))}
    \cup {[step |-> "commit_chunks", at |-> 0], [step |-> "commit_blob", at |-> 0]}

WithinRefBound(kv) ==
    \A k \in DOMAIN kv.reference_count : kv.reference_count[k] <= MaxRefCount

KvBecomes(kv) ==
    /\ WithinRefBound(kv)
    /\ store' = kv.store
    /\ reference_count' = kv.reference_count

\* ------------------------------------------------------------ store_blob
\* The second half of store_blob, once the Chunk rows are committed.  A Blob
\* row is kept without its id, which blob_store.py never reads.
StoreBlobRow(identifier, blob_data, chunk_keys, rows, fault) ==
    IF fault.step = "commit_blob"
    THEN /\ doop_call' = DoopCall("store_blob", identifier, NoKey, "DBError", << >>)
         /\ UNCHANGED <<blob_rows, live>>
    ELSE /\ blob_rows' = blob_rows \cup
                {[identifier |-> identifier,
                  hash |-> Sha256(blob_data),
                  chunks |-> [n \in 1..Len(chunk_keys) |->
                                 GetChunkIdMap(rows, chunk_keys)[chunk_keys[n]]]]}
         /\ live' = (identifier :> blob_data) @@ live
         /\ doop_call' = DoopCall("store_blob", identifier, NoKey, "ok", << >>)

\* store_blob after the KV store took the chunks.
StoreChunkRows(identifier, blob_data, chunk_keys, fault) ==
    IF fault.step = "commit_chunks"
    THEN /\ doop_call' = DoopCall("store_blob", identifier, NoKey, "DBError", << >>)
         /\ UNCHANGED <<blob_rows, chunk_rows, live>>
    ELSE \E ids \in NewChunkIds(chunk_rows,
                       SeqRange(chunk_keys) \ GetExistingChunks(chunk_rows, chunk_keys)) :
            /\ chunk_rows' = chunk_rows \cup {[id |-> ids[k], hash |-> k] : k \in DOMAIN ids}
            /\ StoreBlobRow(identifier, blob_data, chunk_keys,
                            chunk_rows \cup {[id |-> ids[k], hash |-> k] : k \in DOMAIN ids},
                            fault)

StoreBlobItems(identifier, blob_data, chunk_items, fault) ==
    IF fault.step = "put_batch"
    THEN /\ KvBecomes(PutBatch(KvState, SubSeq(chunk_items, 1, fault.at - 1)))
         /\ doop_call' = DoopCall("store_blob", identifier, NoKey, "KVError", << >>)
         /\ UNCHANGED <<blob_rows, chunk_rows, live>>
    ELSE /\ KvBecomes(PutBatch(KvState, chunk_items))
         /\ StoreChunkRows(identifier, blob_data,
                           [n \in 1..Len(chunk_items) |-> chunk_items[n][1]], fault)

\* BlobStore.store_blob (blob_store.py), with the failure fault
StoreBlobStep(identifier, blob_data, fault) ==
    /\ IF BlobExists(identifier)
       THEN /\ doop_call' = DoopCall("store_blob", identifier, NoKey,
                                     "BlobExistsError", << >>)
            /\ UNCHANGED <<blob_rows, chunk_rows, store, reference_count, live>>
       ELSE StoreBlobItems(identifier, blob_data, ChunkBlob(blob_data), fault)
    /\ UNCHANGED <<link_rows, kv_log>>
    /\ UNCHANGED queue_vars
    /\ UNCHANGED other_vars

\* store_blob when nothing fails underneath it
StoreBlob(identifier, blob_data) == StoreBlobStep(identifier, blob_data, NoFault)

\* store_blob when the KV store or the database may fail
StoreBlobFailing(identifier, blob_data) ==
    \E fault \in Faults(blob_data) : StoreBlobStep(identifier, blob_data, fault)

\* --------------------------------------------------------- retrieve_blob
Retrieved(result, value) == [result |-> result, value |-> value]

RetrieveParts(blob, parts) ==
    IF \E n \in 1..Len(parts) : parts[n] = None
    THEN Retrieved("TypeError", << >>)
    ELSE IF blob.hash # Sha256(Join(parts))
    THEN Retrieved("BlobCorruptedError", << >>)
    ELSE Retrieved("ok", Join(parts))

RetrieveKeys(blob, chunk_key_map) ==
    IF \E n \in 1..Len(blob.chunks) : blob.chunks[n] \notin DOMAIN chunk_key_map
    THEN Retrieved("KeyError", << >>)
    ELSE RetrieveParts(blob, GetBatch(KvState,
                 [n \in 1..Len(blob.chunks) |-> chunk_key_map[blob.chunks[n]]]))

RetrieveBlobBody(identifier) ==
    IF ~BlobExists(identifier)
    THEN Retrieved("BlobNotFoundError", << >>)
    ELSE RetrieveKeys(BlobRow(identifier),
                      GetChunkKeyMap(chunk_rows, BlobRow(identifier).chunks))

\* BlobStore.retrieve_blob (blob_store.py)
RetrieveBlob(identifier) ==
    /\ doop_call' = DoopCall("retrieve_blob", identifier, NoKey,
                             RetrieveBlobBody(identifier).result,
                             RetrieveBlobBody(identifier).value)
    /\ UNCHANGED <<blob_rows, chunk_rows, link_rows, store, reference_count, live,
                   kv_log>>
    /\ UNCHANGED queue_vars
    /\ UNCHANGED other_vars

\* ----------------------------------------------------------- delete_blob
\* BlobStore.delete_blob (blob_store.py)
DeleteBlob(identifier) ==
    /\ IF ~BlobExists(identifier)
       THEN /\ doop_call' = DoopCall("delete_blob", identifier, NoKey,
                                     "BlobNotFoundError", << >>)
            /\ UNCHANGED <<blob_rows, store, reference_count, live>>
       ELSE /\ blob_rows' = blob_rows \ {BlobRow(identifier)}
            /\ KvBecomes(DeleteBatch(KvState,
                   SelectChunkHashes(chunk_rows, BlobRow(identifier).chunks)))
            /\ live' = [i \in DOMAIN live \ {identifier} |-> live[i]]
            /\ doop_call' = DoopCall("delete_blob", identifier, NoKey, "ok", << >>)
    /\ UNCHANGED <<chunk_rows, link_rows, kv_log>>
    /\ UNCHANGED queue_vars
    /\ UNCHANGED other_vars

\* ------------------------------------------- the KV store, called directly
KvKeys == {HashChunk(<<0, 1>>), HashChunk(<<1>>)}
KvValues == {<<0, 1>>, <<1>>, <<1, 1>>}

KvLogged(op, key, value) == [op |-> op, key |-> key, value |-> value]

\* KeyValueStore.put, by a caller that made fewer than limit direct calls
KvPutCall(limit, key, value) ==
    /\ Len(kv_log) < limit
    /\ KvBecomes(KvPut(KvState, key, value))
    /\ kv_log' = Append(kv_log, KvLogged("put", key, value))
    /\ doop_call' = DoopCall("put", "-", key, "ok", << >>)
    /\ UNCHANGED <<blob_rows, chunk_rows, link_rows, live>>
    /\ UNCHANGED queue_vars
    /\ UNCHANGED other_vars

\* KeyValueStore.get
KvGetCall(key) ==
    /\ doop_call' = DoopCall("get", "-", key, "ok", KvGet(KvState, key))
    /\ UNCHANGED <<blob_rows, chunk_rows, link_rows, store, reference_count, live,
                   kv_log>>
    /\ UNCHANGED queue_vars
    /\ UNCHANGED other_vars

\* KeyValueStore.delete
KvDeleteCall(limit, key) ==
    /\ Len(kv_log) < limit
    /\ KvBecomes(KvDelete(KvState, key))
    /\ kv_log' = Append(kv_log, KvLogged("delete", key, << >>))
    /\ doop_call' = DoopCall("delete", "-", key, "ok", << >>)
    /\ UNCHANGED <<blob_rows, chunk_rows, link_rows, live>>
    /\ UNCHANGED queue_vars
    /\ UNCHANGED other_vars

\* ------------------------------------------- the blob store of core.py
\* BlobStore.store_blob (core.py).  After put_batch it calls
\* _get_chunk_id_map, which reads Chunk.hash; the Chunk of models.py has the
\* columns id and key only, so the call raises AttributeError before any
\* row is added.
CoreStoreBlob(identifier, blob_data) ==
    /\ IF BlobExists(identifier)
       THEN /\ doop_call' = DoopCall("store_blob", identifier, NoKey,
                                     "BlobExistsError", << >>)
            /\ UNCHANGED <<store, reference_count>>
       ELSE /\ KvBecomes(PutBatch(KvState, ChunkBlob(blob_data)))
            /\ doop_call' = DoopCall("store_blob", identifier, NoKey,
                                     "AttributeError", << >>)
    /\ UNCHANGED <<blob_rows, chunk_rows, link_rows, live, kv_log>>
    /\ UNCHANGED queue_vars
    /\ UNCHANGED other_vars

\* select(Chunk.key) over the links of the blob, .order_by(BlobChunkLink.order)
RECURSIVE KeysByOrder(_)
KeysByOrder(links) ==
    IF links = {} THEN << >>
    ELSE LET l == CHOOSE x \in links : \A o \in links : x.order <= o.order
         IN <<l.chunk>> \o KeysByOrder(links \ {l})

LinkedChunkKeys(identifier) ==
    KeysByOrder({l \in link_rows : l.blob = identifier})

\* BlobStore.retrieve_blob (core.py)
CoreRetrieveBlob(identifier) ==
    /\ LET r == IF ~BlobExists(identifier)
                THEN Retrieved("BlobNotFoundError", << >>)
                ELSE RetrieveParts(BlobRow(identifier),
                                   GetBatch(KvState, LinkedChunkKeys(identifier)))
       IN doop_call' = DoopCall("retrieve_blob", identifier, NoKey, r.result, r.value)
    /\ UNCHANGED <<blob_rows, chunk_rows, link_rows, store, reference_count, live,
                   kv_log>>
    /\ UNCHANGED queue_vars
    /\ UNCHANGED other_vars

\* BlobStore.delete_blob (core.py)
CoreDeleteBlob(identifier) ==
    /\ IF ~BlobExists(identifier)
       THEN /\ doop_call' = DoopCall("delete_blob", identifier, NoKey,
                                     "BlobNotFoundError", << >>)
            /\ UNCHANGED <<blob_rows, store, reference_count, live>>
       ELSE /\ blob_rows' = blob_rows \ {BlobRow(identifier)}
            /\ KvBecomes(DeleteBatch(KvState, LinkedChunkKeys(identifier)))
            /\ live' = [i \in DOMAIN live \ {identifier} |-> live[i]]
            /\ doop_call' = DoopCall("delete_blob", identifier, NoKey, "ok", << >>)
    /\ UNCHANGED <<chunk_rows, link_rows, kv_log>>
    /\ UNCHANGED queue_vars
    /\ UNCHANGED other_vars

\* ---------------------------------------------------------------- specs
\* A blob store whose KV store and database never fail and are its own.
NextBlob ==
    \/ \E identifier \in Identifiers, blob_data \in BlobData :
            StoreBlob(identifier, blob_data)
    \/ \E identifier \in Identifiers : RetrieveBlob(identifier)
    \/ \E identifier \in Identifiers : DeleteBlob(identifier)

SpecBlob == Init /\ [][NextBlob]_vars

\* A KV store used on its own.
NextKv ==
    \/ \E key \in KvKeys, value \in KvValues : KvPutCall(MaxKvOps, key, value)
    \/ \E key \in KvKeys : KvGetCall(key)
    \/ \E key \in KvKeys : KvDeleteCall(MaxKvOps, key)

SpecKv == Init /\ [][NextKv]_vars

\* The blob store that the package snoop.doop exports (core.py).
NextCore ==
    \/ \E identifier \in Identifiers, blob_data \in BlobData :
            CoreStoreBlob(identifier, blob_data)
    \/ \E identifier \in Identifiers : CoreRetrieveBlob(identifier)
    \/ \E identifier \in Identifiers : CoreDeleteBlob(identifier)

SpecCore == Init /\ [][NextCore]_vars

\* A blob store whose KV store is also put to and deleted from directly, as
\* the holder of the store handed to BlobStore can do.
SharedIdentifiers == {"a"}
NextShared ==
    \/ \E identifier \in SharedIdentifiers, blob_data \in BlobData :
            StoreBlob(identifier, blob_data)
    \/ \E identifier \in SharedIdentifiers : RetrieveBlob(identifier)
    \/ \E identifier \in SharedIdentifiers : DeleteBlob(identifier)
    \/ \E key \in KvKeys, value \in KvValues : KvPutCall(MaxForeignKvOps, key, value)
    \/ \E key \in KvKeys : KvDeleteCall(MaxForeignKvOps, key)

SpecShared == Init /\ [][NextShared]_vars

\* A blob store whose KV store and database can fail during store_blob.
NextFault ==
    \/ \E identifier \in Identifiers, blob_data \in BlobData :
            StoreBlob(identifier, blob_data)
    \/ \E identifier \in Identifiers, blob_data \in BlobData :
            StoreBlobFailing(identifier, blob_data)
    \/ \E identifier \in Identifiers : RetrieveBlob(identifier)
    \/ \E identifier \in Identifiers : DeleteBlob(identifier)

SpecFault == Init /\ [][NextFault]_vars

\* ====================================================================
\* doop: the LRU key-value store
\* ====================================================================
LruMaxSize == 2       \* LRUCacheKeyValueStore(max_size)
LruKeys == {HashChunk(<<0, 1>>), HashChunk(<<1>>), HashChunk(<<1, 1>>)}
LruValues == {<<0, 1>>, <<1>>}

LruState == [cache |-> cache, store |-> store, reference_count |-> reference_count]

\* The dict part of the store, as DictKeyValueStore sees it.
LruBase(lru) == [store |-> lru.store, reference_count |-> lru.reference_count]

LruOver(c, kv) ==
    [cache |-> c, store |-> kv.store, reference_count |-> kv.reference_count]

CacheKeys(c) == {c[n][1] : n \in 1..Len(c)}

CacheIndex(c, key) == (CHOOSE n \in 1..Len(c) : c[n][1] = key)

\* del cache[key]
CacheDrop(c, key) == SelectSeq(c, LAMBDA e : e[1] # key)

\* cache.move_to_end(key)
CacheMoveToEnd(c, key) ==
    CacheDrop(c, key) \o <<c[CacheIndex(c, key)]>>

\* cache[key] = value: a key already there keeps its place
CacheSet(c, key, value) ==
    IF key \in CacheKeys(c)
    THEN [n \in 1..Len(c) |-> IF c[n][1] = key THEN <<key, value>> ELSE c[n]]
    ELSE Append(c, <<key, value>>)

\* LRUCacheKeyValueStore._delete
LruDeleteInner(lru, key) ==
    LruOver(IF key \in CacheKeys(lru.cache) THEN CacheDrop(lru.cache, key)
            ELSE lru.cache,
            KvDelete(LruBase(lru), key))

\* LRUCacheKeyValueStore._put, the eviction: oldest_key = next(iter(cache))
LruEvict(lru) ==
    IF Len(lru.cache) > LruMaxSize
    THEN LruDeleteInner(lru, lru.cache[1][1])
    ELSE lru

\* LRUCacheKeyValueStore._put
LruPutInner(lru, key, value) ==
    LruEvict(LruOver(CacheSet(IF key \in CacheKeys(lru.cache)
                              THEN CacheMoveToEnd(lru.cache, key)
                              ELSE lru.cache, key, value),
                     KvPutInner(LruBase(lru), key, value)))

\* _get that leaves the order of the cache alone
LruGetCacheStill(lru, key) == lru.cache

\* LRUCacheKeyValueStore._get: the cache after the call
LruGetCache(lru, key) ==
    IF key \in CacheKeys(lru.cache) THEN CacheMoveToEnd(lru.cache, key)
    ELSE lru.cache

\* LRUCacheKeyValueStore._get under KeyValueStore.get: the value returned
LruGetValue(lru, key) ==
    IF key \in CacheKeys(lru.cache)
    THEN Decompress(lru.cache[CacheIndex(lru.cache, key)][2])
    ELSE KvGet(LruBase(lru), key)

LruBecomes(lru) ==
    /\ cache' = lru.cache
    /\ KvBecomes(LruBase(lru))

\* The key was put or got: it is the most recently used one.
Used(key) == SelectSeq(recency, LAMBDA k : k # key) \o <<key>>

\* KeyValueStore.put on an LRUCacheKeyValueStore
LruPutCall(key, value) ==
    /\ Len(kv_log) < MaxKvOps
    /\ LruBecomes(LruPutInner(LruState, key, Compress(value)))
    /\ recency' = Used(key)
    /\ kv_log' = Append(kv_log, KvLogged("put", key, value))
    /\ doop_call' = DoopCall("put", "-", key, "ok", << >>)
    /\ UNCHANGED <<blob_rows, chunk_rows, link_rows, live>>
    /\ UNCHANGED <<chunk_call, push_group, new_item_event, writers, hybrid>>
    /\ UNCHANGED queue_vars

\* KeyValueStore.get on an LRUCacheKeyValueStore
LruGetCall(key) ==
    /\ cache' = LruGetCache(LruState, key)
    /\ recency' = Used(key)
    /\ doop_call' = DoopCall("get", "-", key, "ok", LruGetValue(LruState, key))
    /\ UNCHANGED <<blob_rows, chunk_rows, link_rows, store, reference_count, live,
                   kv_log>>
    /\ UNCHANGED <<chunk_call, push_group, new_item_event, writers, hybrid>>
    /\ UNCHANGED queue_vars

\* KeyValueStore.delete on an LRUCacheKeyValueStore
LruDeleteCall(key) ==
    /\ Len(kv_log) < MaxKvOps
    /\ LruBecomes(LruDeleteInner(LruState, key))
    /\ kv_log' = Append(kv_log, KvLogged("delete", key, << >>))
    /\ doop_call' = DoopCall("delete", "-", key, "ok", << >>)
    /\ UNCHANGED <<blob_rows, chunk_rows, link_rows, live, recency>>
    /\ UNCHANGED <<chunk_call, push_group, new_item_event, writers, hybrid>>
    /\ UNCHANGED queue_vars

\* An LRU store used on its own.
NextLru ==
    \/ \E key \in LruKeys, value \in LruValues : LruPutCall(key, value)
    \/ \E key \in LruKeys : LruGetCall(key)
    \/ \E key \in LruKeys : LruDeleteCall(key)

SpecLru == Init /\ [][NextLru]_vars

\* ====================================================================
\* doop: the content-defined chunkers
\* ====================================================================
MaxBlobLen == 5       \* the longest blob handed to a content-defined chunker
\* The gear hash is a 32-bit word, ((gear << 1) + table[byte]) & 0xFFFFFFFF.
\* Bits only travel upwards in it, so its low GearWidth bits are the same
\* computation on GearWidth bits; table entries and masks stay below
\* 2^GearWidth, and gear & mask reads those bits only.
GearWidth == 8
Bytes == {0, 1}
GearValues == {0, 1, 3, 128}
Masks == {0, 1, 3}
MinSizes == 0..2
AvgSizes == 0..3
MaxSizes == 1..3

RECURSIVE BlobsOfLength(_)
BlobsOfLength(n) ==
    IF n = 0 THEN {<< >>}
    ELSE {Append(b, x) : b \in BlobsOfLength(n - 1), x \in Bytes}

CdcBlobs == UNION {BlobsOfLength(n) : n \in 0..MaxBlobLen}

\* a & b
RECURSIVE BitAnd(_, _)
BitAnd(a, b) ==
    IF a = 0 \/ b = 0 THEN 0
    ELSE (a % 2) * (b % 2) + 2 * BitAnd(a \div 2, b \div 2)

\* ((gear_hash_value << 1) + self.gear_table[byte]) & 0xFFFFFFFF
GearStep(p, gear, byte) == (gear * 2 + p.gear_table[byte]) % (2 ^ GearWidth)

\* blob[first:last]
Slice(blob, first, last) == SubSeq(blob, first + 1, Min2(last, Len(blob)))

CutAnywhere(p, size, gear) ==
    BitAnd(gear, p.mask) = 0 \/ size >= p.max

\* FastContentDefinedChunker.chunk_blob, the test that ends a chunk size bytes
\* after its start:
\*   i - chunk_start >= min and ((gear & mask) == 0 or i - chunk_start >= max)
CutHere(p, size, gear) ==
    /\ size >= p.min
    /\ \/ BitAnd(gear, p.mask) = 0
       \/ size >= p.max

\* FastContentDefinedChunker.chunk_blob (chunker.py), the for loop from i on
\* and the trailing remainder
RECURSIVE FastCdcLoop(_, _, _, _, _, _)
FastCdcLoop(p, blob, i, chunk_start, gear, chunks) ==
    IF i = Len(blob)
    THEN IF chunk_start < Len(blob)
         THEN Append(chunks, <<HashChunk(Slice(blob, chunk_start, Len(blob))),
                               Slice(blob, chunk_start, Len(blob))>>)
         ELSE chunks
    ELSE IF CutHere(p, i - chunk_start, GearStep(p, gear, blob[i + 1]))
    THEN FastCdcLoop(p, blob, i + 1, Min2(i, chunk_start + p.max), 0,
             Append(chunks,
                    <<HashChunk(Slice(blob, chunk_start, Min2(i, chunk_start + p.max))),
                      Slice(blob, chunk_start, Min2(i, chunk_start + p.max))>>))
    ELSE FastCdcLoop(p, blob, i + 1, chunk_start, GearStep(p, gear, blob[i + 1]), chunks)

\* FastContentDefinedChunker.chunk_blob
FastCdcChunkBlob(p, blob) == FastCdcLoop(p, blob, 0, 0, 0, << >>)

\* FastCDCChunker.chunk_blob (backend/chunker.py), the inner while loop: where
\* the chunk ends.  The hash is the one computed before the cut was decided:
\* the loop updates gear_hash_value and tests it again.
RECURSIVE NormalizeEnd(_, _, _, _, _)
NormalizeEnd(p, blob, chunk_start, end, gear) ==
    IF /\ end < Len(blob)
       /\ end - chunk_start < p.max
       /\ \/ end - chunk_start < p.avg
          \/ BitAnd(gear, p.mask) # 0
    THEN NormalizeEnd(p, blob, chunk_start, end + 1, GearStep(p, gear, blob[end + 1]))
    ELSE end

\* What chunk_blob gives when it never returns.
Diverges == <<"diverges">>

\* FastCDCChunker.hash_chunk: the key together with the chunk
BackendHashChunk(chunk) == <<Sha256(chunk), chunk>>

\* FastCDCChunker.chunk_blob, the outer while loop from i on and the
\* trailing remainder.  A cut that leaves chunk_start, i and the hash as they
\* were at the start of the chunk repeats for ever.
RECURSIVE BackendFastCdcLoop(_, _, _, _, _, _)
BackendFastCdcLoop(p, blob, i, chunk_start, gear, chunks) ==
    IF i >= Len(blob)
    THEN IF chunk_start < Len(blob)
         THEN Append(chunks, BackendHashChunk(Slice(blob, chunk_start, Len(blob))))
         ELSE chunks
    ELSE IF \/ /\ i - chunk_start >= p.min
               /\ BitAnd(GearStep(p, gear, blob[i + 1]), p.mask) = 0
            \/ i - chunk_start >= p.max
    THEN IF NormalizeEnd(p, blob, chunk_start, i, GearStep(p, gear, blob[i + 1]))
               = chunk_start
         THEN Diverges
         ELSE BackendFastCdcLoop(p, blob,
                  NormalizeEnd(p, blob, chunk_start, i, GearStep(p, gear, blob[i + 1])),
                  NormalizeEnd(p, blob, chunk_start, i, GearStep(p, gear, blob[i + 1])),
                  0,
                  Append(chunks, BackendHashChunk(Slice(blob, chunk_start,
                      NormalizeEnd(p, blob, chunk_start, i,
                                   GearStep(p, gear, blob[i + 1]))))))
    ELSE BackendFastCdcLoop(p, blob, i + 1, chunk_start,
                            GearStep(p, gear, blob[i + 1]), chunks)

\* FastCDCChunker.chunk_blob
BackendFastCdcChunkBlob(p, blob) == BackendFastCdcLoop(p, blob, 0, 0, 0, << >>)

\* The chunkers that can be built and the blobs they are given.
ChunkerParams ==
    {p \in [min : MinSizes, avg : AvgSizes, max : MaxSizes, mask : Masks,
            gear_table : [Bytes -> GearValues]] : p.min <= p.max}

ChunkCall(phase, p, blob, chunks) ==
    [phase |-> phase, p |-> p, blob |-> blob, chunks |-> chunks]

\* A chunker is built and a blob is at hand.
ChunkerBuilt ==
    /\ chunk_call.phase = "init"
    /\ \E p \in ChunkerParams, blob \in CdcBlobs :
           chunk_call' = ChunkCall("built", p, blob, << >>)
    /\ UNCHANGED <<cache, recency, push_group, new_item_event, writers, hybrid>>
    /\ UNCHANGED <<blob_rows, chunk_rows, link_rows, store, reference_count,
                   doop_call, live, kv_log>>
    /\ UNCHANGED queue_vars

\* FastContentDefinedChunker.chunk_blob is called
FastCdcCall ==
    /\ chunk_call.phase = "built"
    /\ chunk_call' = ChunkCall("FastContentDefinedChunker", chunk_call.p,
                               chunk_call.blob,
                               FastCdcChunkBlob(chunk_call.p, chunk_call.blob))
    /\ UNCHANGED <<cache, recency, push_group, new_item_event, writers, hybrid>>
    /\ UNCHANGED <<blob_rows, chunk_rows, link_rows, store, reference_count,
                   doop_call, live, kv_log>>
    /\ UNCHANGED queue_vars

\* FastCDCChunker.chunk_blob is called
BackendFastCdcCall ==
    /\ chunk_call.phase = "built"
    /\ chunk_call' = ChunkCall("FastCDCChunker", chunk_call.p, chunk_call.blob,
                               BackendFastCdcChunkBlob(chunk_call.p, chunk_call.blob))
    /\ UNCHANGED <<cache, recency, push_group, new_item_event, writers, hybrid>>
    /\ UNCHANGED <<blob_rows, chunk_rows, link_rows, store, reference_count,
                   doop_call, live, kv_log>>
    /\ UNCHANGED queue_vars

NextChunker ==
    \/ ChunkerBuilt
    \/ FastCdcCall
    \/ BackendFastCdcCall

SpecChunker == Init /\ [][NextChunker]_vars

\* ====================================================================
\* doop: store_blob called by two writers at once
\* ====================================================================
\* BlobStore holds no lock: the statements of two store_blob calls interleave.
\* A writer goes through
\*   exists          self._blob_exists(session, identifier)
\*   put_batch       self.kv_store.put_batch(chunk_items)
\*   existing        self._get_existing_chunks(session, chunk_keys)
\*   commit_chunks   session.add_all(new_chunks); session.commit()
\*   commit_blob     session.add(blob); session.commit()
\* and each writer makes one call.
Writers == {1, 2}

WriterUnchanged ==
    /\ UNCHANGED <<link_rows, kv_log>>
    /\ UNCHANGED <<cache, recency, chunk_call, push_group, new_item_event, hybrid>>
    /\ UNCHANGED queue_vars

WriterEnds(w, result) ==
    /\ writers' = [writers EXCEPT ![w].pc = "done", ![w].result = result]
    /\ doop_call' = DoopCall("store_blob", writers[w].identifier, NoKey, result, << >>)

WriterGoes(w, pc_next) ==
    /\ writers' = [writers EXCEPT ![w].pc = pc_next]
    /\ UNCHANGED doop_call

\* store_blob(identifier, blob_data) is called
WriterCalls(w, identifier, blob_data) ==
    /\ writers[w].pc = "idle"
    /\ writers' = [writers EXCEPT ![w] = [pc |-> "exists", identifier |-> identifier,
                                          blob_data |-> blob_data, existing |-> {},
                                          result |-> "-"]]
    /\ UNCHANGED <<blob_rows, chunk_rows, store, reference_count, live, doop_call>>
    /\ WriterUnchanged

\* if self._blob_exists(session, identifier): raise BlobExistsError
WriterChecksExists(w) ==
    /\ writers[w].pc = "exists"
    /\ IF BlobExists(writers[w].identifier)
       THEN WriterEnds(w, "BlobExistsError")
       ELSE WriterGoes(w, "put_batch")
    /\ UNCHANGED <<blob_rows, chunk_rows, store, reference_count, live>>
    /\ WriterUnchanged

\* self.kv_store.put_batch(chunk_items)
WriterPutsBatch(w) ==
    /\ writers[w].pc = "put_batch"
    /\ KvBecomes(PutBatch(KvState, ChunkBlob(writers[w].blob_data)))
    /\ WriterGoes(w, "existing")
    /\ UNCHANGED <<blob_rows, chunk_rows, live>>
    /\ WriterUnchanged

WriterKeys(w) ==
    [n \in 1..Len(ChunkBlob(writers[w].blob_data)) |->
        ChunkBlob(writers[w].blob_data)[n][1]]

\* existing_chunks = self._get_existing_chunks(session, chunk_keys)
WriterReadsExisting(w) ==
    /\ writers[w].pc = "existing"
    /\ writers' = [writers EXCEPT
                      ![w].pc = "commit_chunks",
                      ![w].existing = GetExistingChunks(chunk_rows, WriterKeys(w))]
    /\ UNCHANGED <<blob_rows, chunk_rows, store, reference_count, live, doop_call>>
    /\ WriterUnchanged

\* session.add_all(new_chunks); session.commit(): Chunk.hash is unique
WriterCommitsChunks(w) ==
    /\ writers[w].pc = "commit_chunks"
    /\ IF \E r \in chunk_rows : r.hash \in SeqRange(WriterKeys(w)) \ writers[w].existing
       THEN /\ WriterEnds(w, "IntegrityError")
            /\ UNCHANGED chunk_rows
       ELSE /\ \E ids \in NewChunkIds(chunk_rows,
                              SeqRange(WriterKeys(w)) \ writers[w].existing) :
                  chunk_rows' = chunk_rows \cup
                                    {[id |-> ids[k], hash |-> k] : k \in DOMAIN ids}
            /\ WriterGoes(w, "commit_blob")
    /\ UNCHANGED <<blob_rows, store, reference_count, live>>
    /\ WriterUnchanged

\* session.add(blob); session.commit(): Blob.identifier is unique
WriterCommitsBlob(w) ==
    /\ writers[w].pc = "commit_blob"
    /\ IF BlobExists(writers[w].identifier)
       THEN /\ WriterEnds(w, "IntegrityError")
            /\ UNCHANGED <<blob_rows, live>>
       ELSE /\ blob_rows' = blob_rows \cup
                   {[identifier |-> writers[w].identifier,
                     hash |-> Sha256(writers[w].blob_data),
                     chunks |-> [n \in 1..Len(WriterKeys(w)) |->
                                    GetChunkIdMap(chunk_rows, WriterKeys(w))[WriterKeys(w)[n]]]]}
            /\ live' = (writers[w].identifier :> writers[w].blob_data) @@ live
            /\ WriterEnds(w, "ok")
    /\ UNCHANGED <<chunk_rows, store, reference_count>>
    /\ WriterUnchanged

NextWriters ==
    \/ \E w \in Writers, blob_data \in BlobData :
            WriterCalls(w, "a", blob_data)
    \/ \E w \in Writers : WriterChecksExists(w)
    \/ \E w \in Writers : WriterPutsBatch(w)
    \/ \E w \in Writers : WriterReadsExisting(w)
    \/ \E w \in Writers : WriterCommitsChunks(w)
    \/ \E w \in Writers : WriterCommitsBlob(w)

SpecWriters == Init /\ [][NextWriters]_vars

\* ====================================================================
\* doop: the hybrid key-value store
\* ====================================================================
\* What HybridKeyValueStore.local_store can be: the store the caller gave, or
\* the class LRUCacheKeyValueStore when the caller gave none.
HybridLocalStores == {"instance", "class"}

\* The local store is the LRU store of the model, the remote one a dict store.
HybridState == [local |-> LruState, remote |-> hybrid.remote]

\* LRUCacheKeyValueStore._get, the value as stored
LruGetInner(lru, key) ==
    IF key \in CacheKeys(lru.cache)
    THEN lru.cache[CacheIndex(lru.cache, key)][2]
    ELSE IF key \in DOMAIN lru.store THEN lru.store[key] ELSE None

\* DictKeyValueStore._get
KvGetInner(kv, key) == IF key \in DOMAIN kv.store THEN kv.store[key] ELSE None

\* HybridKeyValueStore._put
HybridPutInner(h, key, value) ==
    [local |-> LruPutInner(h.local, key, value),
     remote |-> KvPutInner(h.remote, key, value)]

\* HybridKeyValueStore._get: the value returned
HybridGetInner(h, key) ==
    IF LruGetInner(h.local, key) = None
    THEN KvGetInner(h.remote, key)
    ELSE LruGetInner(h.local, key)

\* HybridKeyValueStore._get: the stores after the call
HybridGetState(h, key) ==
    IF LruGetInner(h.local, key) = None
    THEN IF KvGetInner(h.remote, key) # None
         THEN [h EXCEPT !.local = LruPutInner(h.local, key, KvGetInner(h.remote, key))]
         ELSE h
    ELSE [h EXCEPT !.local = LruOver(LruGetCache(h.local, key), LruBase(h.local))]

\* _delete that reaches the remote store only
HybridDeleteRemoteOnly(h, key) ==
    [local |-> h.local, remote |-> KvDelete(h.remote, key)]

\* HybridKeyValueStore._delete
HybridDeleteInner(h, key) ==
    [local |-> LruDeleteInner(h.local, key),
     remote |-> KvDelete(h.remote, key)]

HybridBecomes(h) ==
    /\ cache' = h.local.cache
    /\ store' = h.local.store
    /\ reference_count' = h.local.reference_count
    /\ hybrid' = [hybrid EXCEPT !.remote = h.remote]

HybridUnchanged ==
    /\ UNCHANGED <<blob_rows, chunk_rows, link_rows, live, recency>>
    /\ UNCHANGED <<chunk_call, push_group, new_item_event, writers>>
    /\ UNCHANGED queue_vars

\* HybridKeyValueStore.__init__
HybridBuilt(local_store) ==
    /\ hybrid.local_store = "-"
    /\ hybrid' = [hybrid EXCEPT !.local_store = local_store]
    /\ doop_call' = DoopCall("init", "-", NoKey, "ok", << >>)
    /\ UNCHANGED <<cache, store, reference_count, kv_log>>
    /\ HybridUnchanged

\* A call on a hybrid store whose local_store is the class: _put, _get and
\* _delete of the class are called without an instance and raise TypeError.
HybridRaises(op, key) ==
    /\ doop_call' = DoopCall(op, "-", key, "TypeError", None)
    /\ UNCHANGED <<cache, store, reference_count, hybrid>>

\* KeyValueStore.put on a HybridKeyValueStore
HybridPutCall(key, value) ==
    /\ hybrid.local_store # "-"
    /\ Len(kv_log) < MaxKvOps
    /\ kv_log' = Append(kv_log, KvLogged("put", key, value))
    /\ IF hybrid.local_store = "class"
       THEN HybridRaises("put", key)
       ELSE /\ HybridBecomes(HybridPutInner(HybridState, key, Compress(value)))
            /\ doop_call' = DoopCall("put", "-", key, "ok", << >>)
    /\ HybridUnchanged

\* KeyValueStore.get on a HybridKeyValueStore
HybridGetCall(key) ==
    /\ hybrid.local_store # "-"
    /\ IF hybrid.local_store = "class"
       THEN HybridRaises("get", key)
       ELSE /\ HybridBecomes(HybridGetState(HybridState, key))
            /\ doop_call' =
                   DoopCall("get", "-", key, "ok",
                            IF HybridGetInner(HybridState, key) = None THEN None
                            ELSE Decompress(HybridGetInner(HybridState, key)))
    /\ UNCHANGED kv_log
    /\ HybridUnchanged

\* KeyValueStore.delete on a HybridKeyValueStore
HybridDeleteCall(key) ==
    /\ hybrid.local_store # "-"
    /\ Len(kv_log) < MaxKvOps
    /\ kv_log' = Append(kv_log, KvLogged("delete", key, << >>))
    /\ IF hybrid.local_store = "class"
       THEN HybridRaises("delete", key)
       ELSE /\ HybridBecomes(HybridDeleteInner(HybridState, key))
            /\ doop_call' = DoopCall("delete", "-", key, "ok", << >>)
    /\ HybridUnchanged

\* A hybrid store over an LRU store and a dict store.
NextHybrid ==
    \/ \E local_store \in HybridLocalStores : HybridBuilt(local_store)
    \/ \E key \in LruKeys, value \in LruValues : HybridPutCall(key, value)
    \/ \E key \in LruKeys : HybridGetCall(key)
    \/ \E key \in LruKeys : HybridDeleteCall(key)

SpecHybrid == Init /\ [][NextHybrid]_vars

\* ------------------------------------------------------------------ claims
Returned == last_call.op = "pop" /\ last_call.result = "item"

\* The item could be handed out now: it waits in the priority heap, has
\* matured and not expired, its dependencies are completed and its group
\* holds the tokens it costs.
Eligible(i) ==
    /\ InList(priority_heap, i)
    /\ item_map[i].state = READY
    /\ item_map[i].matures <= now
    /\ item_map[i].deadline > now
    /\ ~HasUnmetDependency(item_map[i])
    /\ item_map[i].group \in DOMAIN groups
          => groups[item_map[i].group].tokens >= item_map[i].cost

\* C1: pop returns the eligible item with the highest effective priority:
\* when pop has returned an item, no item that is still eligible at that
\* instant has a strictly higher effective priority than the returned one.
C1_PopReturnsHighestPriority ==
    Returned =>
        \A j \in DOMAIN item_map :
            Eligible(j) => ~ItemLt(item_map, last_call.id, j)

\* C2: every dependency of an item returned by pop is in the completed set
\* at the moment of the pop.
C2_ReturnedItemHasDependenciesCompleted ==
    Returned => ~HasUnmetDependency(item_map[last_call.id])

\* C3: an item is never returned by pop at a time later than its deadline.
C3_NeverReturnedAfterDeadline ==
    Returned => now <= item_map[last_call.id].deadline

\* C4: an item is never returned by pop at a time earlier than its
\* maturation time (so a pop made while every item is immature returns none).
C4_NeverReturnedBeforeMaturation ==
    Returned => now >= item_map[last_call.id].matures

\* C5: an item returned by pop was READY immediately before it was selected
\* and is IN_PROGRESS when pop returns.
C5_ReturnedItemWasReady ==
    Returned =>
        /\ last_call.was = READY
        /\ item_map[last_call.id].state = IN_PROGRESS

\* C6: an item that pop has returned is not returned again by a later pop
\* unless a retry re-inserted it in between, and one re-insertion allows at
\* most one further emission.
C6_NoReemissionWithoutRetry ==
    [][\A i \in DOMAIN item_map :
          (last_call'.op = "pop" /\ last_call'.result = "item" /\ last_call'.id = i
           /\ emitted[i] >= 1)
          => credit[i] >= 1]_vars

\* C7: pop returns an item of a group only if the group, after refill, held
\* at least the item's cost in tokens, and the pop takes exactly that cost
\* from the group; no tokens are taken for an item that is not returned.
C7_TokensConsumedExactlyForReturnedItem ==
    [][last_call'.op = "pop" =>
          \A g \in DOMAIN groups :
              LET refilled == GroupUpdate(groups[g]).tokens
                  mine == /\ last_call'.result = "item"
                          /\ item_map[last_call'.id].group = g
              IN IF mine
                 THEN /\ refilled >= item_map[last_call'.id].cost
                      /\ groups'[g].tokens = refilled - item_map[last_call'.id].cost
                 ELSE groups'[g].tokens \in {groups[g].tokens, refilled}]_vars

\* The entries of item i in the maturation and priority heaps.
Queued(mh, ph, i) == TimedCount(mh, i) + Count(ph, i)

\* C9: mark_failed on a known item returns normally to its caller, and then
\* the item is either re-queued or FAILED and in the failed set.
C9_MarkFailedReturns ==
    last_call.op = "mark_failed" =>
        /\ last_call.result = "ok"
        /\ \A th \in Threads : pc[th] = "idle"
        /\ \/ Queued(maturation_heap, priority_heap, last_call.id) >= 1
           \/ /\ item_map[last_call.id].state = FAILED
              /\ last_call.id \in failed_items

\* C8: with no expiration, no group limits and no dependencies, and pop
\* called again and again as time advances, every pushed item is eventually
\* returned by pop, and no item is ever returned twice: the items popped are
\* the items pushed, also when items share a priority.
C8_EveryPushedItemEventuallyPopped ==
    /\ [](\A i \in DOMAIN item_map : emitted[i] <= 1)
    /\ \A i \in ItemIds : (i \in DOMAIN item_map) ~> (i \in DOMAIN emitted /\ emitted[i] = 1)

\* All MaxItems items were pushed and each was returned once; two of them
\* share a priority and one had to mature first.
C8_Witness ==
    /\ Len(item_map) = MaxItems
    /\ \A i \in DOMAIN item_map : emitted[i] = 1 /\ item_map[i].state = IN_PROGRESS
    /\ \E i, j \in DOMAIN item_map : i # j /\ item_map[i].priority = item_map[j].priority
    /\ \E i \in DOMAIN item_map : item_map[i].matures > item_map[i].enqueued
    /\ priority_heap = << >> /\ maturation_heap = << >>

\* The maturation time retry_item gives an item whose retry count becomes n.
RetryMatures(it, n) ==
    Max2(it.matures,
         (IF it.last_popped # NoTime THEN it.last_popped ELSE it.enqueued)
             + it.base_retry_delay * Pow(BackoffFactor, n))

C11_RetryPastLimitRaises ==
    [][\A i \in DOMAIN item_map :
          (/\ last_call'.op = "retry_item"
           /\ last_call'.id = i
           /\ item_map[i].retries = item_map[i].max_retries)
          => /\ last_call'.result = "RetryLimitExceededError"
             /\ item_map'[i].retries = item_map[i].max_retries + 1]_vars

\* C12: a push whose deadline is at or before the time of the push fails
\* with ItemExpired, and a failed push leaves the three heaps and the item map
\* as they were.
C12_PushRejectsExpired ==
    [][last_call'.op = "push" =>
          /\ last_call'.result = "ok" => item_map'[last_call'.id].deadline > now
          /\ last_call'.result # "ok" =>
                UNCHANGED <<item_map, priority_heap, maturation_heap,
                            expiration_heap>>]_vars

\* Before a pop: the item is queued, has matured and not expired, its
\* dependencies are completed and its group, after refill, holds its cost.
EligibleOnEntry(i) ==
    /\ Queued(maturation_heap, priority_heap, i) >= 1
    /\ item_map[i].matures <= now
    /\ item_map[i].deadline > now
    /\ ~HasUnmetDependency(item_map[i])
    /\ item_map[i].group \in DOMAIN groups
          => GroupUpdate(groups[item_map[i].group]).tokens >= item_map[i].cost

\* C13: pop fails with QueueEmpty when the priority and maturation heaps are
\* both empty on entry and when no queued item is eligible; when some item
\* is eligible it returns an item.
C13_PopQueueEmptyIffNothingEligible ==
    [][last_call'.op = "pop" =>
          IF \E i \in DOMAIN item_map : EligibleOnEntry(i)
          THEN last_call'.result = "item"
          ELSE last_call'.result = "QueueEmptyError"]_vars

\* ------------------------------------------------------ claims on doop
\* C14: blob round trip.  store_blob of an identifier that is not stored
\* succeeds for every byte string, the empty one included, and from then on
\* retrieve_blob of the identifier returns exactly those bytes, whatever
\* other blobs were stored or deleted before or in between.
C14_BlobRoundTrip ==
    [][/\ (doop_call'.op = "store_blob" /\ doop_call'.identifier \notin DOMAIN live)
            => doop_call'.result = "ok"
       /\ (doop_call'.op = "retrieve_blob" /\ doop_call'.identifier \in DOMAIN live)
            => /\ doop_call'.result = "ok"
               /\ doop_call'.value = live[doop_call'.identifier]]_vars

\* C15: store_blob raises BlobExistsError exactly when the identifier is
\* stored at the time of the call, and then leaves the index and the KV
\* store with its reference counts as they were; retrieve_blob and
\* delete_blob raise BlobNotFoundError exactly when the identifier is not
\* stored at the time of the call (never stored, or deleted since).
C15_ExistsAndNotFoundErrors ==
    [][/\ doop_call'.op = "store_blob" =>
            /\ doop_call'.result = "BlobExistsError"
                  <=> doop_call'.identifier \in DOMAIN live
            /\ doop_call'.result = "BlobExistsError"
                  => UNCHANGED <<blob_rows, chunk_rows, store, reference_count>>
       /\ doop_call'.op \in {"retrieve_blob", "delete_blob"} =>
            (doop_call'.result = "BlobNotFoundError"
                  <=> doop_call'.identifier \notin DOMAIN live)]_vars

\* store_blob was refused for a stored identifier while chunks were counted,
\* after another identifier had been stored and deleted.
C15_Witness ==
    /\ doop_call.op = "store_blob"
    /\ doop_call.result = "BlobExistsError"
    /\ doop_call.identifier \in DOMAIN live
    /\ Cardinality(DOMAIN live) = 1
    /\ \E k \in DOMAIN reference_count : reference_count[k] >= 2

\* C16: retrieve_blob of a stored blob never returns bytes whose SHA-256
\* differs from the hash recorded when the blob was stored; when the chunks
\* fetched from the KV store do not reassemble to such content, the call
\* fails, and it fails with BlobCorruptedError.
C16_RetrieveChecksIntegrity ==
    [][(doop_call'.op = "retrieve_blob" /\ doop_call'.identifier \in DOMAIN live) =>
          IF doop_call'.result = "ok"
          THEN Sha256(doop_call'.value) = Sha256(live[doop_call'.identifier])
          ELSE doop_call'.result = "BlobCorruptedError"]_vars

\* How often the chunk with the key occurs in the ordered chunk list of a blob.
OccurrencesIn(blob_data, key) ==
    Cardinality({n \in DOMAIN ChunkBlob(blob_data) : ChunkBlob(blob_data)[n][1] = key})

\* The occurrences of the chunk summed over the live blobs of the identifiers.
RECURSIVE LiveOccurrences(_, _)
LiveOccurrences(identifiers, key) ==
    IF identifiers = {} THEN 0
    ELSE LET i == CHOOSE x \in identifiers : TRUE
         IN OccurrencesIn(live[i], key) + LiveOccurrences(identifiers \ {i}, key)

\* C17: deduplication.  After any sequence of successful store_blob and
\* delete_blob calls every chunk of a live blob is held in the KV store once,
\* under its key, and its reference count is the number of times the chunk
\* occurs in the chunk lists of all live blobs together, a chunk that occurs
\* several times in one blob counting that often.
C17_ReferenceCountIsLiveOccurrences ==
    \A i \in DOMAIN live :
        \A n \in DOMAIN ChunkBlob(live[i]) :
            LET key == ChunkBlob(live[i])[n][1]
            IN /\ key \in DOMAIN store
               /\ store[key] = ChunkBlob(live[i])[n][2]
               /\ reference_count[key] = LiveOccurrences(DOMAIN live, key)

\* The keys of the chunks of the live blobs.
LiveChunkKeys ==
    UNION {{ChunkBlob(live[i])[n][1] : n \in DOMAIN ChunkBlob(live[i])} :
              i \in DOMAIN live}

\* C18: after any sequence of stores and deletes a chunk is present in the
\* KV store if and only if some live blob contains it: delete_blob keeps the
\* chunks that another live blob still refers to and removes the chunks
\* that no live blob refers to any more.
C18_ChunkPresentIffLiveBlobContainsIt ==
    DOMAIN store = LiveChunkKeys

\* C19: store_blob is one transaction on the index.  When a step of
\* store_blob fails after the identifier was found free (the KV store raises
\* in put_batch, or a commit raises), the index is left as it was: no Blob
\* row for the identifier, no new Chunk row, and so the identifier is still
\* free to be stored.
C19_FailedStoreLeavesIndexUnchanged ==
    [][(/\ doop_call'.op = "store_blob"
        /\ doop_call'.result \notin {"ok", "BlobExistsError"})
          => /\ \A b \in blob_rows' : b.identifier # doop_call'.identifier
             /\ chunk_rows' = chunk_rows]_vars

\* What the direct calls made so far say about a key: the puts and the
\* deletes of it since it was last absent, and the value of the first of
\* those puts.  A delete of an absent key counts for nothing.
RECURSIVE Replay(_, _, _)
Replay(log, key, sofar) ==
    IF log = << >> THEN sofar
    ELSE IF Head(log).key # key THEN Replay(Tail(log), key, sofar)
    ELSE IF Head(log).op = "put"
    THEN Replay(Tail(log), key,
                IF sofar.puts = sofar.deletes
                THEN [puts |-> 1, deletes |-> 0, first |-> Head(log).value]
                ELSE [sofar EXCEPT !.puts = @ + 1])
    ELSE Replay(Tail(log), key,
                IF sofar.puts = sofar.deletes THEN sofar
                ELSE [sofar EXCEPT !.deletes = @ + 1])

Replayed(key) == Replay(kv_log, key, [puts |-> 0, deletes |-> 0, first |-> None])

KvAgreesWithLog ==
    \A key \in KvKeys :
        /\ key \in DOMAIN store <=> Replayed(key).puts > Replayed(key).deletes
        /\ key \in DOMAIN reference_count <=> key \in DOMAIN store
        /\ key \in DOMAIN store =>
              /\ reference_count[key] = Replayed(key).puts - Replayed(key).deletes
              /\ reference_count[key] > 0
              /\ KvGet(KvState, key) = Replayed(key).first
        /\ key \notin DOMAIN store => KvGet(KvState, key) = None

\* C20: the in-memory KV store under any sequence of put, get and delete.  A
\* key is present exactly when it was put more often than deleted since it
\* was last absent; its reference count is that difference and is positive
\* while the key is present; get returns the value of the first put since
\* the key was last absent, and None for an absent key; a delete of an
\* absent key changes nothing.
C20_KvReferenceCounting ==
    [][/\ KvAgreesWithLog'
       /\ doop_call'.op = "get" =>
             doop_call'.value = IF doop_call'.key \in DOMAIN store
                                THEN Replayed(doop_call'.key).first
                                ELSE None
       /\ (doop_call'.op = "delete" /\ doop_call'.key \notin DOMAIN store)
             => UNCHANGED <<store, reference_count>>]_vars

\* get returned the value first put to a key that was put, deleted, put
\* again with another value and put once more with a third.
C20_Witness ==
    /\ doop_call.op = "get"
    /\ Len(kv_log) = 4
    /\ \A n \in 1..4 : kv_log[n].key = doop_call.key
    /\ kv_log[1].op = "put" /\ kv_log[2].op = "delete"
    /\ kv_log[3].op = "put" /\ kv_log[4].op = "put"
    /\ kv_log[3].value # kv_log[1].value
    /\ kv_log[4].value # kv_log[3].value
    /\ reference_count[doop_call.key] = 2
    /\ doop_call.value = kv_log[3].value

\* C21: every KV store variant keeps the reference-count semantics as its
\* callers see them: get returns the value of the first put since the key
\* was last absent, also after a second put with another value, and the key
\* stays present until it was deleted as often as it was put.
C21_VariantsKeepReferenceCounts ==
    [][doop_call'.op = "get" =>
          doop_call'.value =
              IF Replayed(doop_call'.key).puts > Replayed(doop_call'.key).deletes
              THEN Replayed(doop_call'.key).first
              ELSE None]_vars

\* Where the key stands in recency; the larger, the more recently used.
UsedAt(order, key) == CHOOSE n \in 1..Len(order) : order[n] = key

\* C22: the LRU store.  After every put at most max_size keys are cached and
\* the key put is the most recently used one in the cache; a put evicts a
\* key only when the cache would exceed max_size, and the key it evicts was
\* used (put or got) less recently than every key that stays cached.
C22_LruEvictsLeastRecentlyUsed ==
    [][doop_call'.op = "put" =>
          /\ Len(cache') <= LruMaxSize
          /\ Cardinality(CacheKeys(cache')) = Len(cache')
          /\ cache'[Len(cache')][1] = doop_call'.key
          /\ Cardinality(CacheKeys(cache) \cup {doop_call'.key}) <= LruMaxSize
                => CacheKeys(cache) \subseteq CacheKeys(cache')
          /\ \A e \in CacheKeys(cache) \ CacheKeys(cache') :
                \A c \in CacheKeys(cache') :
                    UsedAt(recency', e) < UsedAt(recency', c)]_vars

\* A put has evicted the key that was put second, because the key put first
\* was got in between.
C22_Witness ==
    /\ doop_call.op = "put"
    /\ Len(kv_log) = 3
    /\ Len(recency) = 3
    /\ Len(cache) = LruMaxSize
    /\ recency[1] \notin CacheKeys(cache)
    /\ kv_log[1].key = recency[2]
    /\ kv_log[2].key = recency[1]

\* What C23 says of one chunk_blob call: every chunk but the last is of min
\* to max bytes, the last of at most max, the chunks joined in order are the
\* blob, an empty blob gives no chunk and a single byte one chunk, and every
\* chunk carries the key hash_chunk gives it.
ChunkData(chunks) == [n \in 1..Len(chunks) |-> chunks[n][2]]

ChunksAreSound(call) ==
    /\ call.chunks # Diverges
    /\ \A n \in 1..Len(call.chunks) : Len(call.chunks[n]) = 2
    /\ \A n \in 1..(Len(call.chunks) - 1) :
          /\ Len(call.chunks[n][2]) >= call.p.min
          /\ Len(call.chunks[n][2]) <= call.p.max
    /\ call.chunks # << >> =>
          Len(call.chunks[Len(call.chunks)][2]) <= call.p.max
    /\ Join(ChunkData(call.chunks)) = call.blob
    /\ call.blob = << >> => call.chunks = << >>
    /\ Len(call.blob) = 1 => Len(call.chunks) = 1
    /\ \A n \in 1..Len(call.chunks) :
          call.chunks[n][1] = HashChunk(call.chunks[n][2])

Chunked == chunk_call.phase \in {"FastContentDefinedChunker", "FastCDCChunker"}

DeadlinePassed(entry, at) == entry.deadline # NoTime /\ TimeOf(entry.deadline) < at
MaturesLater(entry, at) == entry.matures # NoTime /\ TimeOf(entry.matures) > at

\* C24: load puts every item of the snapshot in exactly one place: an item
\* whose deadline has passed is dropped (it is in no heap), an item that
\* matures in the future is in the maturation heap and not in the priority
\* heap, any other is in the priority heap and not in the maturation heap;
\* and a pop never returns an item whose deadline has passed.
C24_LoadRoutesEveryItem ==
    [][/\ last_call'.op = "load" =>
             \A k \in 1..Len(last_call'.snapshot) :
                 IF DeadlinePassed(last_call'.snapshot[k], now)
                 THEN Queued(maturation_heap', priority_heap', k) = 0
                      /\ TimedCount(expiration_heap', k) = 0
                 ELSE IF MaturesLater(last_call'.snapshot[k], now)
                 THEN TimedCount(maturation_heap', k) = 1
                      /\ Count(priority_heap', k) = 0
                 ELSE Count(priority_heap', k) = 1
                      /\ TimedCount(maturation_heap', k) = 0
       /\ (last_call'.op = "pop" /\ last_call'.id # NoId) =>
             TimeOf(item_map[last_call'.id].deadline) >= now]_vars

\* C25: the queue lock never deadlocks: every operation a thread starts
\* without holding the lock finishes and leaves the lock released, so no
\* thread is ever left holding the lock while it waits to acquire it, and in
\* particular mark_failed, which calls retry_item with the lock held, ends.
C25_EveryOperationReleasesTheLock ==
    /\ lock = NoId
    /\ \A th \in Threads : pc[th] # "mark_failed:retry_item:acquire"

\* C26: in every reachable state an item has at most one entry in the
\* priority and maturation heaps taken together, and an item that is
\* IN_PROGRESS has none, whatever pushes, pops and retry_item calls came
\* before, retry_item of an item never popped or retried twice included.
C26_QueuedAtMostOnce ==
    \A id \in DOMAIN item_map :
        /\ Queued(maturation_heap, priority_heap, id) <= 1
        /\ item_map[id].state = IN_PROGRESS =>
              Queued(maturation_heap, priority_heap, id) = 0

\* C27: in every reachable state a pop either returns an item or raises
\* QueueEmptyError and nothing else, also when the deadline of an item that
\* is IN_PROGRESS, COMPLETED or still maturing passes while others are queued.
C27_PopReturnsItemOrQueueEmpty ==
    last_call.op = "pop" => last_call.result \in {"item", "QueueEmptyError"}

\* C28: COMPLETED is terminal: an item that mark_complete has set to
\* COMPLETED and put in the completed set stays COMPLETED and stays in the
\* completed set in every later state, whatever is pushed or popped and
\* whichever deadlines pass.
C28_CompletedIsTerminal ==
    [][\A id \in DOMAIN item_map :
          (item_map[id].state = COMPLETED /\ id \in completed_items) =>
              (item_map'[id].state = COMPLETED /\ id \in completed_items')]_vars

\* C29: the default group is created once: however the steps of concurrent
\* pushes without a group interleave, at most one default group is ever
\* created, and all the items pushed without a group carry the same group id.
C29_OneDefaultGroup ==
    /\ Cardinality(DOMAIN groups) <= 1
    /\ \A i, j \in DOMAIN item_map : item_map[i].group = item_map[j].group

\* C30: every successful push sets the queue's new-item event: after a push
\* has returned an id the event is set, so a consumer that waits on it wakes.
C30_PushSetsNewItemEvent ==
    (last_call.op = "push" /\ last_call.result = "ok") => new_item_event

\* C31: for every item the queue knows, the deadline is never before the
\* maturation time, in every reachable state: push rejects such a window and
\* no later operation, a retry's new maturation time included, makes one.
C31_DeadlineNotBeforeMaturation ==
    \A id \in DOMAIN item_map : item_map[id].deadline >= item_map[id].matures

\* (last_popped or enqueued) + base_retry_delay * backoff_factor ** retries
EarliestRetry(it) ==
    (IF it.last_popped # NoTime THEN it.last_popped ELSE it.enqueued)
        + it.base_retry_delay * Pow(BackoffFactor, it.retries)

\* C32: the retry backoff is respected: a retry never moves an item's
\* maturation time earlier; once retry_item has returned True, no pop returns
\* the item before its earliest retry time, (last popped or enqueued) plus
\* the backoff delay; and with a delay of zero the item is queued and mature
\* at once.
C32_RetryBackoffRespected ==
    [][/\ (last_call'.op = "retry_item" /\ last_call'.result = "True") =>
             /\ item_map'[last_call'.id].matures >= item_map[last_call'.id].matures
             /\ item_map[last_call'.id].base_retry_delay = 0 =>
                   /\ item_map'[last_call'.id].matures <= now
                   /\ Queued(maturation_heap', priority_heap', last_call'.id) >= 1
       /\ (/\ last_call'.op = "pop"
           /\ last_call'.result = "item"
           /\ item_map[last_call'.id].retries > 0) =>
             now >= EarliestRetry(item_map[last_call'.id])]_vars

CountOf(counts, key) == IF key \in DOMAIN counts THEN counts[key] ELSE 0

\* C34: delete_blob takes back one reference per occurrence: for a blob whose
\* chunk list holds key k n times, a successful delete_blob lowers the
\* reference count of k by exactly n, the n that store_blob added.
C34_DeleteDecrementsOncePerOccurrence ==
    [][(doop_call'.op = "delete_blob" /\ doop_call'.result = "ok") =>
          \A key \in DOMAIN reference_count :
              CountOf(reference_count, key) - CountOf(reference_count', key)
                  = OccurrencesIn(live[doop_call'.identifier], key)]_vars

\* C35: a store_blob call that fails at any step, the KV store raising part
\* of the way through the batch or a commit of the index raising, leaves
\* every chunk's reference count and every stored chunk as before the call.
C35_FailedStoreLeavesCountsUnchanged ==
    [][(/\ doop_call'.op = "store_blob"
        /\ doop_call'.result \notin {"ok", "BlobExistsError"})
          => /\ reference_count' = reference_count
             /\ store' = store]_vars

\* C36: of two store_blob calls for one identifier that run at the same time
\* exactly one succeeds and the other fails with BlobExistsError, and the
\* reference counts afterwards are those of one stored copy of the blob.
C36_ConcurrentStoresOneWins ==
    (\A w \in Writers : writers[w].pc = "done") =>
        /\ {writers[w].result : w \in Writers} = {"ok", "BlobExistsError"}
        /\ \A key \in DOMAIN reference_count :
              reference_count[key] = LiveOccurrences(DOMAIN live, key)

\* C37: in the LRU store an eviction never makes a key unreadable that is
\* still referenced: whatever puts, gets and deletes came before, get of a key
\* that the callers have put more often than deleted returns a value, also
\* after the key was evicted from the cache.
C37_EvictionKeepsReferencedKeysReadable ==
    [][(/\ doop_call'.op = "get"
        /\ Replayed(doop_call'.key).puts > Replayed(doop_call'.key).deletes)
          => doop_call'.value # None]_vars

Refilled(g) ==
    Min2(g.max_tokens, g.tokens + (now - g.last_refill_time) * g.refill_rate)

\* C39: the tokens of every group stay within 0..max_tokens.  A pop that
\* looks at a group refills it to min(max_tokens, tokens + elapsed *
\* refill_rate) and sets last_refill_time to now; unless the pop returns an
\* item of the group, the refill is the only change to the group's tokens.
C39_TokenBucketBounds ==
    [][/\ \A g \in DOMAIN groups' :
              /\ 0 <= groups'[g].tokens
              /\ groups'[g].tokens <= groups'[g].max_tokens
       /\ last_call'.op = "pop" =>
              \A g \in DOMAIN groups :
                  IF last_call'.result = "item" /\ item_map[last_call'.id].group = g
                  THEN /\ groups'[g].last_refill_time = now
                       /\ groups'[g].tokens <= Refilled(groups[g])
                  ELSE \/ groups'[g] = groups[g]
                       \/ groups'[g] = [groups[g] EXCEPT
                                            !.tokens = Refilled(groups[g]),
                                            !.last_refill_time = now]]_vars

\* A pop that found too few tokens: the group was refilled from 0 to 1 and an
\* item of cost 2 of the group stays queued.
C39_Witness ==
    /\ last_call.op = "pop"
    /\ last_call.result = "QueueEmptyError"
    /\ \E id \in DOMAIN item_map :
           /\ item_map[id].group \in DOMAIN groups
           /\ item_map[id].cost = 2
           /\ Count(priority_heap, id) = 1
           /\ groups[item_map[id].group].tokens = 1
           /\ groups[item_map[id].group].last_refill_time = now
           /\ now > 0

\* C40: a new item is READY when its maturation time is not after the time
\* of its construction and IMMATURE otherwise: after a push that succeeds,
\* the pushed item is IMMATURE exactly when it matures later than now.
C40_NewItemStateFollowsMaturation ==
    [][(last_call'.op = "push" /\ last_call'.result = "ok") =>
          item_map'[last_call'.id].state =
              IF item_map'[last_call'.id].matures <= now THEN READY ELSE IMMATURE]_vars

====
